---------------------------- MODULE Spec2Model ----------------------------
(***************************************************************************)
(* A model of the UTXO side of the atomic swap engine:                     *)
(*   mm2src/coins/utxo.rs              transaction builder, HTLC actions   *)
(*   mm2src/coins/utxo/rpc_clients.rs  native and Electrum RPC backends    *)
(*                                                                         *)
(* Representation.                                                         *)
(*  - A hash is a short sequence of bytes; reversed() reverses it.         *)
(*  - A u32 that does not fit the 32-bit integers of TLC (sequence numbers, *)
(*    version group ids) is a pair of 16-bit halves [hi, lo].              *)
(*  - An f64 amount is the integer number of 1/SatFraction satoshi it      *)
(*    stands for, so that f64_to_sat truncates.  Amounts stay far below    *)
(*    2^64: u64 wrap-around is outside what is modelled here.              *)
(*  - A script is a sequence of instructions [opcode, data].               *)
(***************************************************************************)
EXTENDS Integers, Sequences, FiniteSets, TLC

(***************************************************************************)
(* Bounds of the model                                                     *)
(***************************************************************************)
\* the longest unspent list handed to generate_transaction
MaxUtxos == 3
\* the longest output list handed to generate_transaction
MaxOutputs == 2
\* an f64 amount resolves 1/SatFraction of a satoshi
SatFraction == 2

(***************************************************************************)
(* Program constants                                                       *)
(***************************************************************************)
\* the flat fee send_outputs_from_my_address passes to generate_transaction
TX_FEE == 1000

\* chain::constants::SEQUENCE_FINAL = 0xFFFFFFFF
SEQUENCE_FINAL == [hi |-> 65535, lo |-> 65535]

\* u32 subtraction of a small number, as in SEQUENCE_FINAL - 1
U32Sub(x, n) ==
    IF x.lo >= n THEN [hi |-> x.hi, lo |-> x.lo - n]
    ELSE [hi |-> (x.hi + 65535) % 65536, lo |-> x.lo + 65536 - n]

(***************************************************************************)
(* Values                                                                  *)
(***************************************************************************)
Ok(v) == [ok |-> TRUE, val |-> v]
Err(msg) == [ok |-> FALSE, err |-> msg]

\* H256::reversed(): the bytes in opposite order
Reversed(h) == [i \in 1..Len(h) |-> h[Len(h) + 1 - i]]

\* fn f64_to_sat: (amount * 10^decimals) as u64 truncates toward zero
f64_to_sat(amount, decimals) == amount \div SatFraction

(***************************************************************************)
(* Scripts                                                                 *)
(***************************************************************************)
NoData == [kind |-> "none"]
Op(opcode) == [opcode |-> opcode, data |-> NoData]

\* Builder::push_data / push_bytes: the opcode is chosen by the length
PushOpcode(len) ==
    IF len = 0 THEN "OP_0"
    ELSE IF len = 4 THEN "OP_PUSHBYTES_4"
    ELSE IF len = 1 THEN "OP_PUSHBYTES_1"
    ELSE IF len = 20 THEN "OP_PUSHBYTES_20"
    ELSE IF len = 32 THEN "OP_PUSHBYTES_32"
    ELSE IF len = 33 THEN "OP_PUSHBYTES_33"
    ELSE IF len < 76 THEN "OP_PUSHBYTES_N"
    ELSE IF len < 256 THEN "OP_PUSHDATA1"
    ELSE "OP_PUSHDATA2"

Push(data) == [opcode |-> PushOpcode(data.len), data |-> data]

\* Builder::build_p2pkh
build_p2pkh(address_hash) ==
    << Op("OP_DUP"), Op("OP_HASH160"), Push(address_hash),
       Op("OP_EQUALVERIFY"), Op("OP_CHECKSIG") >>

(***************************************************************************)
(* generate_transaction                                                    *)
(***************************************************************************)
RECURSIVE SumValues(_)
\* the loop of lines 366-369
SumValues(outputs) ==
    IF outputs = <<>> THEN 0
    ELSE Head(outputs).value + SumValues(Tail(outputs))

EmptyUtxos(utxos) == utxos = <<>>

EmptyOutputs(outputs) == outputs = <<>>

TargetIsZero_missing(target_value) == FALSE
TargetIsZero(target_value) == target_value = 0

EnoughCollected_never(value_to_spend, target_value) == FALSE
EnoughCollected(value_to_spend, target_value) == value_to_spend >= target_value

NotEnough_never(value_to_spend, target_value) == FALSE
NotEnough_lte(value_to_spend, target_value) == value_to_spend <= target_value
NotEnough(value_to_spend, target_value) == value_to_spend < target_value

NeedsChange_gte(value_to_spend, target_value) == value_to_spend >= target_value
NeedsChange(value_to_spend, target_value) == value_to_spend > target_value

UnsignedInput(utxo, decimals) ==
    [ previous_output |-> [hash |-> Reversed(utxo.txid), index |-> utxo.vout],
      sequence |-> SEQUENCE_FINAL,
      amount |-> f64_to_sat(utxo.amount, decimals) ]

RECURSIVE SelectInputs(_, _, _, _, _, _)
\* the loop of lines 376-389, entered at utxo number i
SelectInputs(utxos, i, value_to_spend, inputs, target_value, decimals) ==
    IF i > Len(utxos) THEN [value_to_spend |-> value_to_spend, inputs |-> inputs]
    ELSE LET spent == value_to_spend + f64_to_sat(utxos[i].amount, decimals)
             ins == Append(inputs, UnsignedInput(utxos[i], decimals))
         IN  IF EnoughCollected(spent, target_value)
             THEN [value_to_spend |-> spent, inputs |-> ins]
             ELSE SelectInputs(utxos, i + 1, spent, ins, target_value, decimals)

\* lines 404-409 and 543-548
VersionGroupId(version) ==
    IF version = 3 THEN [hi |-> 964, lo |-> 33392]        \* 0x03c48270
    ELSE IF version = 4 THEN [hi |-> 35119, lo |-> 8325]  \* 0x892f2085
    ELSE [hi |-> 0, lo |-> 0]

ERR_EMPTY_UTXOS == "Couldn't generate tx from empty utxos set"
ERR_EMPTY_OUTPUTS == "Couldn't generate tx from empty outputs set"
ERR_ZERO_TARGET == "Total target value calculated from outputs is zero"
ERR_NOT_ENOUGH == "Couldn't collect enough value from utxos to create tx with outputs"

generate_transaction(utxos, outputs, lock_time, version, overwintered, tx_fee, decimals, change_script_pubkey) ==
    IF EmptyUtxos(utxos) THEN Err(ERR_EMPTY_UTXOS)
    ELSE IF EmptyOutputs(outputs) THEN Err(ERR_EMPTY_OUTPUTS)
    ELSE IF TargetIsZero(SumValues(outputs)) THEN Err(ERR_ZERO_TARGET)
    ELSE
      LET target_value == SumValues(outputs) + tx_fee
          sel == SelectInputs(utxos, 1, 0, <<>>, target_value, decimals)
      IN  IF NotEnough(sel.value_to_spend, target_value) THEN Err(ERR_NOT_ENOUGH)
          ELSE Ok([ inputs |-> sel.inputs,
                    outputs |->
                      IF NeedsChange(sel.value_to_spend, target_value)
                      THEN Append(outputs,
                                  [ value |-> sel.value_to_spend - target_value,
                                    script_pubkey |-> change_script_pubkey ])
                      ELSE outputs,
                    lock_time |-> lock_time,
                    version |-> version,
                    overwintered |-> overwintered,
                    expiry_height |-> 0,
                    version_group_id |-> VersionGroupId(version) ])

(***************************************************************************)
(* Keys, hashes, signatures                                                *)
(***************************************************************************)
\* the 32 raw bytes of the private key named k
PrivBytes(k) == [kind |-> "priv", len |-> 32, key |-> k]

\* the 33 bytes of the compressed public key of the private key named k
PubBytes(k) == [kind |-> "pub", len |-> 33, key |-> k]

\* bitcrypto::dhash160
dhash160(data) == [kind |-> "hash160", len |-> 20, of |-> data]

\* Public::address_hash
address_hash(public) == dhash160(public)

\* Public::from_slice: 33 bytes (compressed) or 65 bytes are a public key
PublicFromSlice(bytes) ==
    IF bytes.kind = "pub" /\ bytes.len \in {33, 65} THEN Ok(bytes)
    ELSE Err("Invalid public key")

compressed_key_pair_from_bytes(raw, prefix) ==
    IF raw.len # 32 THEN Err("Invalid raw priv key len")
    ELSE Ok([ private |-> [prefix |-> prefix, compressed |-> TRUE, secret |-> raw],
              public |-> PubBytes(raw.key) ])

\* fn address_from_raw_pubkey: the address hash of the key, or an error
address_from_raw_pubkey(pub_key, prefix, t_addr_prefix) ==
    IF ~PublicFromSlice(pub_key).ok THEN Err("Invalid public key")
    ELSE Ok([ t_addr_prefix |-> t_addr_prefix, prefix |-> prefix,
              hash |-> address_hash(PublicFromSlice(pub_key).val) ])

\* Transaction::hash of a signed transaction
TxHash(tx) == [kind |-> "h256", of |-> tx]

\* TransactionInputSigner::signature_hash(input_index, 0, script, Base, 1)
signature_hash(signer, input_index, script_code) ==
    [ kind |-> "sighash", tx |-> signer, input_index |-> input_index,
      script_code |-> script_code, sighashtype |-> 1 ]

\* fn script_sig: the signature followed by the SIGHASH_ALL byte; sign_ok is
\* whether key_pair.private().sign succeeded
script_sig(message, key_pair, sign_ok) ==
    IF ~sign_ok THEN Err("sign failed")
    ELSE Ok([ kind |-> "sig", len |-> 72, signer |-> key_pair.private.secret,
              message |-> message, sighash_type |-> 1 ])

script_sig_with_pub(message, key_pair, sign_ok) ==
    IF ~script_sig(message, key_pair, sign_ok).ok
    THEN script_sig(message, key_pair, sign_ok)
    ELSE Ok(<< Push(script_sig(message, key_pair, sign_ok).val),
               Push(key_pair.public) >>)

\* bytes of one instruction and of a script
InstrLen(instr) ==
    IF instr.data = NoData THEN 1
    ELSE IF instr.opcode = "OP_PUSHDATA1" THEN 2 + instr.data.len
    ELSE IF instr.opcode = "OP_PUSHDATA2" THEN 3 + instr.data.len
    ELSE 1 + instr.data.len

RECURSIVE ScriptLen(_)
ScriptLen(script) ==
    IF script = <<>> THEN 0 ELSE InstrLen(Head(script)) + ScriptLen(Tail(script))

\* a script handed to push_data as bytes
ScriptBytes(script) == [kind |-> "script", len |-> ScriptLen(script), script |-> script]

\* Builder::build_p2sh
build_p2sh(script_hash) == << Op("OP_HASH160"), Push(script_hash), Op("OP_EQUAL") >>

(***************************************************************************)
(* HTLC redeem script and its spends                                       *)
(***************************************************************************)
payment_script(time_lock, secret_hash, pub_0, pub_1) ==
    << Op("OP_IF"),
       Push([kind |-> "u32le", len |-> 4, value |-> time_lock]),
       Op("OP_CHECKLOCKTIMEVERIFY"),
       Op("OP_DROP"),
       Push(pub_0),
       Op("OP_CHECKSIG"),
       Op("OP_ELSE"),
       Op("OP_SIZE"),
       Push([kind |-> "bytes", len |-> 1, value |-> 32]),
       Op("OP_EQUALVERIFY"),
       Op("OP_HASH160"),
       Push(secret_hash),
       Op("OP_EQUALVERIFY"),
       Push(pub_1),
       Op("OP_CHECKSIG"),
       Op("OP_ENDIF") >>

\* fn p2pkh_spend
p2pkh_spend(signer, input_index, key_pair, prev_script, sign_ok) ==
    LET script == build_p2pkh(address_hash(key_pair.public))
        sig == script_sig_with_pub(signature_hash(signer, input_index, script),
                                   key_pair, sign_ok)
    IN  IF script # prev_script
        THEN Err("p2pkh script built from input key pair doesn't match expected prev script")
        ELSE IF ~sig.ok THEN sig
        ELSE Ok([ script_sig |-> sig.val,
                  sequence |-> signer.inputs[input_index].sequence,
                  previous_output |-> signer.inputs[input_index].previous_output ])

\* fn p2sh_spend
p2sh_spend(signer, input_index, key_pair, script_data, redeem_script, sign_ok) ==
    LET sig == script_sig(signature_hash(signer, input_index, redeem_script),
                          key_pair, sign_ok)
    IN  IF ~sig.ok THEN sig
        ELSE Ok([ script_sig |-> << Push(sig.val) >> \o script_data
                                   \o << Push(ScriptBytes(redeem_script)) >>,
                  sequence |-> signer.inputs[input_index].sequence,
                  previous_output |-> signer.inputs[input_index].previous_output ])

\* fn p2sh_spending_tx
p2sh_spending_tx(prev_transaction, outputs, script_data, key_pair, version, overwintered, lock_time, sequence, sign_ok) ==
    LET unsigned ==
          [ lock_time |-> lock_time,
            version |-> version,
            overwintered |-> overwintered,
            inputs |-> << [ sequence |-> sequence,
                            previous_output |->
                              [hash |-> TxHash(prev_transaction.transaction), index |-> 0],
                            amount |-> prev_transaction.transaction.outputs[1].value ] >>,
            outputs |-> outputs,
            expiry_height |-> 0,
            version_group_id |-> VersionGroupId(version) ]
        signed_input == p2sh_spend(unsigned, 1, key_pair, script_data,
                                   prev_transaction.redeem_script.script, sign_ok)
    IN  IF ~signed_input.ok THEN signed_input
        ELSE Ok([ version |-> unsigned.version,
                  overwintered |-> unsigned.overwintered,
                  lock_time |-> unsigned.lock_time,
                  inputs |-> << signed_input.val >>,
                  outputs |-> outputs,
                  expiry_height |-> unsigned.expiry_height,
                  version_group_id |-> unsigned.version_group_id ])

RECURSIVE SignInputs(_, _, _, _, _)
\* the loop of sign_tx, entered at input number i
SignInputs(unsigned, i, key_pair, prev_script, sign_ok) ==
    IF i > Len(unsigned.inputs) THEN Ok(<<>>)
    ELSE LET one == p2pkh_spend(unsigned, i, key_pair, prev_script, sign_ok)
             rest == SignInputs(unsigned, i + 1, key_pair, prev_script, sign_ok)
         IN  IF ~one.ok THEN one
             ELSE IF ~rest.ok THEN rest
             ELSE Ok(<< one.val >> \o rest.val)

\* fn sign_tx
sign_tx(unsigned, key_pair, prev_script, sign_ok) ==
    LET signed_inputs == SignInputs(unsigned, 1, key_pair, prev_script, sign_ok)
    IN  IF ~signed_inputs.ok THEN signed_inputs
        ELSE Ok([ inputs |-> signed_inputs.val,
                  outputs |-> unsigned.outputs,
                  version |-> unsigned.version,
                  overwintered |-> unsigned.overwintered,
                  lock_time |-> unsigned.lock_time,
                  expiry_height |-> unsigned.expiry_height,
                  version_group_id |-> unsigned.version_group_id ])

(***************************************************************************)
(* Funding: send_outputs_from_my_address and its three callers             *)
(***************************************************************************)
\* the UtxoCoinImpl of the wallet whose key is named k
Coin(k, tx_version) ==
    [ key_pair |-> [ private |-> [prefix |-> 188, compressed |-> TRUE,
                                  secret |-> PrivBytes(k)],
                     public |-> PubBytes(k) ],
      tx_version |-> tx_version,
      overwintered |-> tx_version >= 3,
      decimals |-> 8,
      pub_addr_prefix |-> 60,
      pub_t_addr_prefix |-> 0,
      wif_prefix |-> 188 ]

\* lines 649-653: every input takes the amount the node reports for it
WithAmounts(unsigned, amounts) ==
    [ unsigned EXCEPT !.inputs =
        [ i \in 1..Len(unsigned.inputs) |->
            [ unsigned.inputs[i] EXCEPT !.amount = amounts[i].val ] ] ]

AmountFailed(unsigned, amounts) ==
    \E i \in 1..Len(unsigned.inputs) : ~amounts[i].ok

\* lines 637-660, the continuation of list_unspent_ordered: an error, or the
\* ExtendedUtxoTx handed to send_raw_tx.  unspents is the result of the listing,
\* amounts[i] the result of output_amount for input i, sign_ok that of signing.
send_outputs_continuation(arc, unspents, outputs, redeem_script, amounts, sign_ok) ==
    LET change_script_pubkey == build_p2pkh(address_hash(arc.key_pair.public))
        unsigned == generate_transaction(unspents.val, outputs, 0, arc.tx_version,
                                         arc.overwintered, TX_FEE, arc.decimals,
                                         change_script_pubkey)
        signed == sign_tx(WithAmounts(unsigned.val, amounts), arc.key_pair,
                          change_script_pubkey, sign_ok)
    IN  IF ~unspents.ok THEN unspents
        ELSE IF ~unsigned.ok THEN unsigned
        ELSE IF AmountFailed(unsigned.val, amounts) THEN Err("output_amount failed")
        ELSE IF ~signed.ok THEN signed
        ELSE Ok([transaction |-> signed.val, redeem_script |-> redeem_script])

\* fn send_buyer_fee up to its call of send_outputs_from_my_address
send_buyer_fee(coin, fee_pub_key, amount) ==
    LET address == address_from_raw_pubkey(fee_pub_key, coin.pub_addr_prefix,
                                           coin.pub_t_addr_prefix)
    IN  IF ~address.ok THEN address
        ELSE Ok([ outputs |-> << [ value |-> f64_to_sat(amount, coin.decimals),
                                   script_pubkey |-> build_p2pkh(address.val.hash) ] >>,
                  redeem_script |-> ScriptBytes(<<>>) ])

\* the P2SH output and the redeem script of an HTLC funding
HtlcFunding(coin, redeem_script, amount) ==
    [ outputs |-> << [ value |-> f64_to_sat(amount, coin.decimals),
                       script_pubkey |->
                         build_p2sh(dhash160(ScriptBytes(redeem_script))) ] >>,
      redeem_script |-> ScriptBytes(redeem_script) ]

send_seller_payment_swapped(coin, time_lock, pub_a0, pub_b0, priv_bn_hash, amount) ==
    IF ~PublicFromSlice(pub_a0).ok THEN PublicFromSlice(pub_a0)
    ELSE IF ~PublicFromSlice(pub_b0).ok THEN PublicFromSlice(pub_b0)
    ELSE Ok(HtlcFunding(coin,
                        payment_script(time_lock, priv_bn_hash,
                                       PublicFromSlice(pub_a0).val,
                                       PublicFromSlice(pub_b0).val),
                        amount))

\* fn send_buyer_payment up to its call of send_outputs_from_my_address
send_buyer_payment(coin, time_lock, pub_a0, pub_b0, priv_bn_hash, amount) ==
    IF ~PublicFromSlice(pub_a0).ok THEN PublicFromSlice(pub_a0)
    ELSE IF ~PublicFromSlice(pub_b0).ok THEN PublicFromSlice(pub_b0)
    ELSE Ok(HtlcFunding(coin,
                        payment_script(time_lock, priv_bn_hash,
                                       PublicFromSlice(pub_a0).val,
                                       PublicFromSlice(pub_b0).val),
                        amount))

\* fn send_seller_payment up to its call of send_outputs_from_my_address
send_seller_payment(coin, time_lock, pub_a0, pub_b0, priv_bn_hash, amount) ==
    IF ~PublicFromSlice(pub_b0).ok THEN PublicFromSlice(pub_b0)
    ELSE IF ~PublicFromSlice(pub_a0).ok THEN PublicFromSlice(pub_a0)
    ELSE Ok(HtlcFunding(coin,
                        payment_script(time_lock, priv_bn_hash,
                                       PublicFromSlice(pub_b0).val,
                                       PublicFromSlice(pub_a0).val),
                        amount))

(***************************************************************************)
(* Spending an HTLC output: claims and refunds                             *)
(***************************************************************************)
PANIC_SUB == "panic: attempt to subtract with overflow"

\* a - b on u64: a build with overflow checks panics below zero, one without
\* wraps; a negative result v stands for the wrapped value 2^64 + v
sub_u64(a, b, overflow_checks) ==
    IF a >= b THEN Ok(a - b)
    ELSE IF overflow_checks THEN Err(PANIC_SUB)
    ELSE Ok(a - b)

\* the script data of the claim branch and of the refund branch
ClaimScriptData(b_priv_n) == << Push(b_priv_n), Op("OP_0") >>
RefundScriptData == << Op("OP_1") >>

RefundSequence_final == SEQUENCE_FINAL
RefundSequence == U32Sub(SEQUENCE_FINAL, 1)

RefundLockTime_zero(now) == 0
RefundLockTime(now) == now

\* what the four spend actions share: key pair, output, p2sh_spending_tx; an
\* error, or the ExtendedUtxoTx handed to send_raw_tx
htlc_spend(coin, prev_tx, priv_0, script_data, lock_time, sequence, overflow_checks, sign_ok) ==
    LET key_pair == compressed_key_pair_from_bytes(priv_0, coin.wif_prefix)
        value == sub_u64(prev_tx.transaction.outputs[1].value, 1000, overflow_checks)
        output == [ value |-> value.val,
                    script_pubkey |-> build_p2pkh(address_hash(coin.key_pair.public)) ]
        transaction == p2sh_spending_tx(prev_tx, << output >>, script_data, key_pair.val,
                                        coin.tx_version, coin.overwintered,
                                        lock_time, sequence, sign_ok)
    IN  IF ~key_pair.ok THEN key_pair
        ELSE IF ~value.ok THEN value
        ELSE IF ~transaction.ok THEN transaction
        ELSE Ok([transaction |-> transaction.val, redeem_script |-> ScriptBytes(<<>>)])

send_seller_spends_buyer_payment(coin, buyer_payment_tx, b_priv_0, b_priv_n, now, overflow_checks, sign_ok) ==
    htlc_spend(coin, buyer_payment_tx, b_priv_0, ClaimScriptData(b_priv_n), now,
               SEQUENCE_FINAL, overflow_checks, sign_ok)

send_buyer_spends_seller_payment(coin, seller_payment_tx, a_priv_0, b_priv_n, now, overflow_checks, sign_ok) ==
    htlc_spend(coin, seller_payment_tx, a_priv_0, ClaimScriptData(b_priv_n), now,
               SEQUENCE_FINAL, overflow_checks, sign_ok)

send_buyer_refunds_payment(coin, buyer_payment_tx, a_priv_0, now, overflow_checks, sign_ok) ==
    htlc_spend(coin, buyer_payment_tx, a_priv_0, RefundScriptData, RefundLockTime(now),
               RefundSequence, overflow_checks, sign_ok)

send_seller_refunds_payment(coin, seller_payment_tx, b_priv_0, now, overflow_checks, sign_ok) ==
    htlc_spend(coin, seller_payment_tx, b_priv_0, RefundScriptData, RefundLockTime(now),
               RefundSequence, overflow_checks, sign_ok)

(***************************************************************************)
(* ExtendedUtxoTx::extract_secret                                          *)
(***************************************************************************)
\* an instruction that Script::iter cannot parse: the iterator yields Err
Malformed == [opcode |-> "malformed", data |-> NoData]

ERR_EXTRACT == "Couldn't extract secret"
PANIC_INDEX == "panic: index out of bounds"
PANIC_UNWRAP == "panic: called Result::unwrap() on an Err value"

\* lines 127-128: instruction number i (from 0) is the secret
IsSecretPush_third(i, instruction) == i = 2 /\ instruction.opcode = "OP_PUSHBYTES_32"
IsSecretPush(i, instruction) == i = 1 /\ instruction.opcode = "OP_PUSHBYTES_32"

RECURSIVE ExtractLoop(_, _)
\* the loop of lines 125-132, entered at instruction number i (from 0)
ExtractLoop(script, i) ==
    IF i >= Len(script) THEN Err(ERR_EXTRACT)
    ELSE IF script[i + 1] = Malformed THEN Err(PANIC_UNWRAP)
    ELSE IF IsSecretPush(i, script[i + 1]) THEN Ok(script[i + 1].data)
    ELSE ExtractLoop(script, i + 1)

extract_secret(e) ==
    IF Len(e.transaction.inputs) = 0 THEN Err(PANIC_INDEX)
    ELSE ExtractLoop(e.transaction.inputs[1].script_sig, 0)

(***************************************************************************)
(* Raw bytes of an ExtendedUtxoTx: to_raw_bytes and tx_from_raw_bytes      *)
(***************************************************************************)
\* transmute of a u32 to [u8; 4] and back, on a little-endian target
U32LE_be(n) ==
    << (n \div 16777216) % 256, (n \div 65536) % 256, (n \div 256) % 256, n % 256 >>
U32LE(n) ==
    << n % 256, (n \div 256) % 256, (n \div 65536) % 256, (n \div 16777216) % 256 >>

FromU32LE(b) == b[1] + 256 * b[2] + 65536 * b[3] + 16777216 * b[4]

\* serialization::serialize and deserialize of a UtxoTransaction: a
\* transaction is known by its bytes, which begin with the version;
\* deserialize takes nothing but the whole serialization of a transaction
serialize(transaction) == transaction.bytes

deserialize(bytes) ==
    IF Len(bytes) >= 1 /\ bytes[1] = 1 THEN Ok([bytes |-> bytes])
    ELSE Err("MalformedData")

to_raw_bytes(e) ==
    U32LE(Len(serialize(e.transaction))) \o serialize(e.transaction)
        \o U32LE(Len(e.redeem_script)) \o e.redeem_script

ERR_TOO_SMALL == "Input bytes slice len is too small"
PANIC_SLICE == "panic: range end index out of range for slice"

\* &bytes[from..to], counted from 0 with to excluded
Slice(bytes, from, to) ==
    IF to > Len(bytes) \/ from > to THEN Err(PANIC_SLICE)
    ELSE Ok(SubSeq(bytes, from + 1, to))

tx_from_raw_bytes(bytes) ==
    IF Len(bytes) < 8 THEN Err(ERR_TOO_SMALL)
    ELSE
      LET tx_len == FromU32LE(Slice(bytes, 0, 4).val)
          tx_bytes == Slice(bytes, 4, 4 + tx_len)
          transaction == deserialize(tx_bytes.val)
          read == 4 + tx_len
          redeem_len_bytes == Slice(bytes, read, read + 4)
          redeem_len == FromU32LE(redeem_len_bytes.val)
          redeem_script == Slice(bytes, read + 4, read + 4 + redeem_len)
      IN  IF ~tx_bytes.ok THEN tx_bytes
          ELSE IF ~transaction.ok THEN transaction
          ELSE IF ~redeem_len_bytes.ok THEN redeem_len_bytes
          ELSE IF ~redeem_script.ok THEN redeem_script
          ELSE Ok([transaction |-> transaction.val, redeem_script |-> redeem_script.val])

(***************************************************************************)
(* State                                                                   *)
(***************************************************************************)
VARIABLES
    \* a call of generate_transaction: its arguments, its position, its result
    gen_utxos, gen_outputs, gen_tx_fee, gen_version, gen_pc, gen_result,
    \* one swap: its parameters, the clock, the two HTLC fundings made so far
    \* and the action run last
    sw_time_lock, sw_secret, sw_overflow_checks, sw_now,
    sw_buyer_payment, sw_seller_payment, sw_last,
    \* funding actions running on one wallet: where each is, its outputs, what
    \* the node answered, the transaction it built, its result; the unspents
    \* the node holds for the wallet's address, the send_raw_transaction
    \* requests issued, and the wallet's utxo_mutex
    f_pc, f_call, f_env, f_tx, f_result, node_unspent, sent_requests, utxo_mutex,
    \* one ElectrumClient::send_transaction: the inputs of its transaction,
    \* the connections, what each server knows of the transaction, where the
    \* future is, the broadcast's answer, the polls made and the last one's
    \* answer, the result, and the answer to a later list_unspent_ordered
    el_inputs, el_connected, el_server, el_pc, el_broadcast, el_polls, el_last_poll,
    el_result, el_listed,
    \* one call of extract_secret: the transaction, the position, the result
    ex_tx, ex_pc, ex_result,
    \* an ExtendedUtxoTx, its raw bytes, the position and the decoded result
    raw_e, raw_bytes, raw_pc, raw_result,
    \* one Electrum client: the sender slot of every connection, the requests
    \* written to its channel and not answered yet, the response maps, the id
    \* counter and the calls of electrum_request_multi in progress
    rq_tx, rq_channel, rq_responses, rq_next_id, rq_req,
    \* the task spawned by electrum_connect: where connect_loop stands, its delay,
    \* the sender slot, whether the ElectrumConnection was dropped, and the
    \* connection attempts begun and chunks processed (in all, and since the drop),
    \* and the attempts that failed since the start or the last connection
    sv_pc, sv_delay, sv_tx, sv_dropped, sv_attempts, sv_chunks, sv_after_drop, sv_failures,
    \* one wait for confirmations: which of the two pollers runs, its target and
    \* retry limit, its state, the clock, the failed queries and the queries made,
    \* the node's answer to the last query and the outcome
    cf_kind, cf_confirmations, cf_max_retries, cf_state, cf_now, cf_retries, cf_queries, cf_last, cf_result,
    \* two confirmation pollers run side by side on the same answers and the
    \* same clock: the one with the larger target, the one with the smaller
    pr_a, pr_b, pr_now,
    \* one search for the spend of an output: the detector, the watched output
    \* index, the caller's deadline, the blocks of the chain, the transactions the
    \* node fails to return, whether its listing query succeeds, the clock, the phase of wait_for_tx_spend with its
    \* confirmation poller and its WaitForTxSpend, and the outcome
    sp_kind, sp_vout, sp_wait_until, sp_chain, sp_unfetchable, sp_listing_ok, sp_now, sp_phase, sp_poller, sp_scan, sp_result,
    \* one call of list_unspent_ordered: the backend, what the server lists,
    \* whether the listing query succeeds, the listed entry whose amount query
    \* fails (0 for none), the position of the call and its outcome
    ls_kind, ls_listing, ls_listing_ok, ls_failing, ls_pc, ls_result,
    \* connect_loop with its clock: where it stands, its delay, the sender slot,
    \* the time, the time stored in last_chunk, the time at which the sleep of
    \* electrum_last_chunk_loop ends, and which future ended the last connection
    id_pc, id_delay, id_tx, id_now, id_last_chunk, id_wake, id_cause,
    \* connect_loop against a server that comes and goes: where the loop stands,
    \* its delay, the sender slot, whether the server accepts connections,
    \* whether the handle was dropped, and the connections that have ended (capped)
    rc_pc, rc_delay, rc_tx, rc_reachable, rc_dropped, rc_ended,
    \* the id counter of an Electrum client: its value, the task that holds its
    \* mutex (0 when free), where each task stands in next_id, the value it has
    \* read, and the ids handed out so far in the order of their return
    nx_next, nx_mutex, nx_pc, nx_local, nx_ids,
    \* the receiving side of one connection: the frames the server sends, the
    \* bytes not yet read from the socket, the read buffer of the codec, the ids
    \* in the response map, and the chunks handed to electrum_process_chunk
    ck_frames, ck_stream, ck_buf, ck_responses, ck_dispatched

genVars == << gen_utxos, gen_outputs, gen_tx_fee, gen_version, gen_pc, gen_result >>

swapVars == << sw_time_lock, sw_secret, sw_overflow_checks, sw_now,
               sw_buyer_payment, sw_seller_payment, sw_last >>

fundVars == << f_pc, f_call, f_env, f_tx, f_result, node_unspent, sent_requests, utxo_mutex >>

elVars == << el_inputs, el_connected, el_server, el_pc, el_broadcast, el_polls,
            el_last_poll, el_result, el_listed >>

exVars == << ex_tx, ex_pc, ex_result >>

rawVars == << raw_e, raw_bytes, raw_pc, raw_result >>

rqVars == << rq_tx, rq_channel, rq_responses, rq_next_id, rq_req >>

svVars == << sv_pc, sv_delay, sv_tx, sv_dropped, sv_attempts, sv_chunks, sv_after_drop, sv_failures >>

cfVars == << cf_kind, cf_confirmations, cf_max_retries, cf_state, cf_now, cf_retries, cf_queries, cf_last, cf_result >>

prVars == << pr_a, pr_b, pr_now >>

spVars == << sp_kind, sp_vout, sp_wait_until, sp_chain, sp_unfetchable, sp_listing_ok, sp_now, sp_phase, sp_poller, sp_scan, sp_result >>

lsVars == << ls_kind, ls_listing, ls_listing_ok, ls_failing, ls_pc, ls_result >>

idVars == << id_pc, id_delay, id_tx, id_now, id_last_chunk, id_wake, id_cause >>

rcVars == << rc_pc, rc_delay, rc_tx, rc_reachable, rc_dropped, rc_ended >>

nxVars == << nx_next, nx_mutex, nx_pc, nx_local, nx_ids >>

ckVars == << ck_frames, ck_stream, ck_buf, ck_responses, ck_dispatched >>

vars == << genVars, swapVars, fundVars, elVars, exVars, rawVars, rqVars, svVars, cfVars, prVars, spVars, lsVars, idVars, rcVars, nxVars, ckVars >>

\* a part of the state that a specification does not use
GenIdle ==
    /\ gen_utxos = <<>>
    /\ gen_outputs = <<>>
    /\ gen_tx_fee = 0
    /\ gen_version = 1
    /\ gen_pc = "idle"
    /\ gen_result = Err("")

SwapIdle ==
    /\ sw_time_lock = 0
    /\ sw_secret = NoData
    /\ sw_overflow_checks = FALSE
    /\ sw_now = 0
    /\ sw_buyer_payment = Err("none")
    /\ sw_seller_payment = Err("none")
    /\ sw_last = [action |-> "none"]

FundIdle ==
    /\ f_pc = << >>
    /\ f_call = << >>
    /\ f_env = << >>
    /\ f_tx = << >>
    /\ f_result = << >>
    /\ node_unspent = {}
    /\ sent_requests = {}
    /\ utxo_mutex = "unlocked"

ElIdle ==
    /\ el_inputs = << >>
    /\ el_connected = << >>
    /\ el_server = << >>
    /\ el_pc = "idle"
    /\ el_broadcast = Err("none")
    /\ el_polls = 0
    /\ el_last_poll = Err("none")
    /\ el_result = Err("none")
    /\ el_listed = Err("none")

ExIdle ==
    /\ ex_tx = Err("none")
    /\ ex_pc = "idle"
    /\ ex_result = Err("none")

RawIdle ==
    /\ raw_e = Err("none")
    /\ raw_bytes = << >>
    /\ raw_pc = "idle"
    /\ raw_result = Err("none")

RqIdle ==
    /\ rq_tx = << >>
    /\ rq_channel = << >>
    /\ rq_responses = << >>
    /\ rq_next_id = 0
    /\ rq_req = << >>

SvIdle ==
    /\ sv_pc = "idle"
    /\ sv_delay = 0
    /\ sv_tx = FALSE
    /\ sv_dropped = FALSE
    /\ sv_attempts = 0
    /\ sv_chunks = 0
    /\ sv_after_drop = 0
    /\ sv_failures = 0

CfIdle ==
    /\ cf_kind = "none"
    /\ cf_confirmations = 0
    /\ cf_max_retries = 0
    /\ cf_state = "idle"
    /\ cf_now = 0
    /\ cf_retries = 0
    /\ cf_queries = 0
    /\ cf_last = << >>
    /\ cf_result = Err("none")

PrIdle ==
    /\ pr_a = << >>
    /\ pr_b = << >>
    /\ pr_now = 0

SpIdle ==
    /\ sp_kind = "none"
    /\ sp_vout = 0
    /\ sp_wait_until = 0
    /\ sp_chain = << >>
    /\ sp_unfetchable = {}
    /\ sp_listing_ok = TRUE
    /\ sp_now = 0
    /\ sp_phase = "idle"
    /\ sp_poller = << >>
    /\ sp_scan = << >>
    /\ sp_result = Err("none")

LsIdle ==
    /\ ls_kind = "none"
    /\ ls_listing = << >>
    /\ ls_listing_ok = TRUE
    /\ ls_failing = 0
    /\ ls_pc = "idle"
    /\ ls_result = Err("none")

IdIdle ==
    /\ id_pc = "idle"
    /\ id_delay = 0
    /\ id_tx = FALSE
    /\ id_now = 0
    /\ id_last_chunk = 0
    /\ id_wake = 0
    /\ id_cause = "none"

RcIdle ==
    /\ rc_pc = "idle"
    /\ rc_delay = 0
    /\ rc_tx = FALSE
    /\ rc_reachable = FALSE
    /\ rc_dropped = FALSE
    /\ rc_ended = 0

NxIdle ==
    /\ nx_next = 0
    /\ nx_mutex = 0
    /\ nx_pc = << >>
    /\ nx_local = << >>
    /\ nx_ids = << >>

CkIdle ==
    /\ ck_frames = << >>
    /\ ck_stream = << >>
    /\ ck_buf = << >>
    /\ ck_responses = {}
    /\ ck_dispatched = << >>

\* what an action of one specification leaves alone
GenFrame == UNCHANGED << swapVars, fundVars, elVars, exVars, rawVars, rqVars, svVars, cfVars, prVars, spVars, lsVars, idVars, rcVars, nxVars, ckVars >>
SwapFrame == UNCHANGED << genVars, fundVars, elVars, exVars, rawVars, rqVars, svVars, cfVars, prVars, spVars, lsVars, idVars, rcVars, nxVars, ckVars >>
FundFrame == UNCHANGED << genVars, swapVars, elVars, exVars, rawVars, rqVars, svVars, cfVars, prVars, spVars, lsVars, idVars, rcVars, nxVars, ckVars >>
ElFrame == UNCHANGED << genVars, swapVars, fundVars, exVars, rawVars, rqVars, svVars, cfVars, prVars, spVars, lsVars, idVars, rcVars, nxVars, ckVars >>
ExFrame == UNCHANGED << genVars, swapVars, fundVars, elVars, rawVars, rqVars, svVars, cfVars, prVars, spVars, lsVars, idVars, rcVars, nxVars, ckVars >>
RawFrame == UNCHANGED << genVars, swapVars, fundVars, elVars, exVars, rqVars, svVars, cfVars, prVars, spVars, lsVars, idVars, rcVars, nxVars, ckVars >>
RqFrame == UNCHANGED << genVars, swapVars, fundVars, elVars, exVars, rawVars, svVars, cfVars, prVars, spVars, lsVars, idVars, rcVars, nxVars, ckVars >>
SvFrame == UNCHANGED << genVars, swapVars, fundVars, elVars, exVars, rawVars, rqVars, cfVars, prVars, spVars, lsVars, idVars, rcVars, nxVars, ckVars >>
CfFrame == UNCHANGED << genVars, swapVars, fundVars, elVars, exVars, rawVars, rqVars, svVars, prVars, spVars, lsVars, idVars, rcVars, nxVars, ckVars >>
PrFrame == UNCHANGED << genVars, swapVars, fundVars, elVars, exVars, rawVars, rqVars, svVars, cfVars, spVars, lsVars, idVars, rcVars, nxVars, ckVars >>
SpFrame == UNCHANGED << genVars, swapVars, fundVars, elVars, exVars, rawVars, rqVars, svVars, cfVars, prVars, lsVars, idVars, rcVars, nxVars, ckVars >>
LsFrame == UNCHANGED << genVars, swapVars, fundVars, elVars, exVars, rawVars, rqVars, svVars, cfVars, prVars, spVars, idVars, rcVars, nxVars, ckVars >>
IdFrame == UNCHANGED << genVars, swapVars, fundVars, elVars, exVars, rawVars, rqVars, svVars, cfVars, prVars, spVars, lsVars, rcVars, nxVars, ckVars >>
RcFrame == UNCHANGED << genVars, swapVars, fundVars, elVars, exVars, rawVars, rqVars, svVars, cfVars, prVars, spVars, lsVars, idVars, nxVars, ckVars >>
NxFrame == UNCHANGED << genVars, swapVars, fundVars, elVars, exVars, rawVars, rqVars, svVars, cfVars, prVars, spVars, lsVars, idVars, rcVars, ckVars >>
CkFrame == UNCHANGED << genVars, swapVars, fundVars, elVars, exVars, rawVars, rqVars, svVars, cfVars, prVars, spVars, lsVars, idVars, rcVars, nxVars >>

(***************************************************************************)
(* SpecGen: generate_transaction applied to bounded inputs                 *)
(***************************************************************************)
\* the satoshi values of the unspents and of the requested outputs
UtxoSats == {0, 500, 1000, 2500, 100000000}
OutputSats == {0, 1000, 1500, 50000000}

\* the f64 amounts of the unspents: whole satoshis and ones with a fraction
UtxoAmounts ==
    { s * SatFraction + r : s \in UtxoSats, r \in {0, SatFraction - 1} }

\* the txid of the unspent at position i of a list
TxidAt(i) == << i, 16 + i >>

\* the address hashes of the recipient and of the wallet itself
RecipientHash == address_hash(PubBytes("F"))
MyAddressHash == address_hash(PubBytes("A"))

\* what list_unspent_ordered may hand over: lists sorted ascending by amount
SortedUtxoLists ==
    UNION { { [i \in 1..n |-> [txid |-> TxidAt(i), vout |-> i - 1, amount |-> f[i]]]
              : f \in { g \in [1..n -> UtxoAmounts] :
                          \A i \in 1..n, j \in 1..n : i < j => g[i] <= g[j] } }
            : n \in 0..MaxUtxos }

OutputLists ==
    UNION { { [i \in 1..n |-> [value |-> f[i],
                                script_pubkey |-> build_p2pkh(RecipientHash)]]
              : f \in [1..n -> OutputSats] }
            : n \in 0..MaxOutputs }

GenInit ==
    /\ gen_utxos \in SortedUtxoLists
    /\ gen_outputs \in OutputLists
    /\ gen_tx_fee \in {0, TX_FEE}
    /\ gen_version \in {1, 3, 4}
    /\ gen_pc = "call"
    /\ gen_result = Err("")
    /\ SwapIdle
    /\ FundIdle
    /\ ElIdle
    /\ ExIdle
    /\ RawIdle
    /\ RqIdle
    /\ SvIdle
    /\ CfIdle
    /\ PrIdle
    /\ SpIdle
    /\ LsIdle
    /\ IdIdle
    /\ RcIdle
    /\ NxIdle
    /\ CkIdle

Generate ==
    /\ gen_pc = "call"
    /\ gen_result' = generate_transaction(gen_utxos, gen_outputs, 0, gen_version,
                                          gen_version >= 3, gen_tx_fee, 8,
                                          build_p2pkh(MyAddressHash))
    /\ gen_pc' = "done"
    /\ UNCHANGED << gen_utxos, gen_outputs, gen_tx_fee, gen_version >>
    /\ GenFrame

GenNext == Generate

SpecGen == GenInit /\ [][GenNext]_vars

(***************************************************************************)
(* Properties of generate_transaction (checked under SpecGen)              *)
(***************************************************************************)
RECURSIVE SumOfUtxos(_)
\* the unspents' total in satoshi
SumOfUtxos(utxos) ==
    IF utxos = <<>> THEN 0
    ELSE (Head(utxos).amount \div SatFraction) + SumOfUtxos(Tail(utxos))

RECURSIVE SumOfInputs(_)
SumOfInputs(inputs) ==
    IF inputs = <<>> THEN 0 ELSE Head(inputs).amount + SumOfInputs(Tail(inputs))

RECURSIVE SumOfOutputs(_)
SumOfOutputs(outputs) ==
    IF outputs = <<>> THEN 0 ELSE Head(outputs).value + SumOfOutputs(Tail(outputs))

\* the inputs spend, in order, the first unspents of the list
InputsArePrefix(inputs, utxos) ==
    /\ Len(inputs) <= Len(utxos)
    /\ \A i \in 1..Len(inputs) :
          /\ Reversed(inputs[i].previous_output.hash) = utxos[i].txid
          /\ inputs[i].previous_output.index = utxos[i].vout
          /\ inputs[i].amount = utxos[i].amount \div SatFraction

GenTarget == SumOfOutputs(gen_outputs)

GenReturnsSufficientPrefix ==
    /\ gen_result.ok
    /\ SumOfInputs(gen_result.val.inputs) >= GenTarget + gen_tx_fee
    /\ InputsArePrefix(gen_result.val.inputs, gen_utxos)

\* C4 as stated: for every ascending unspent list U and non-empty outputs with
\* total T, 0 < T <= sum(U), generate_transaction returns a transaction whose
\* inputs sum to at least T + fee and are a prefix of U.
C4_Original ==
    ( /\ gen_pc = "done"
      /\ gen_outputs # <<>>
      /\ 0 < GenTarget
      /\ GenTarget <= SumOfUtxos(gen_utxos) )
    => GenReturnsSufficientPrefix

\* C4 amended: for every ascending unspent list U and non-empty outputs with
\* total T, 0 < T and T + fee <= sum(U), generate_transaction returns a
\* transaction whose inputs sum to at least T + fee and are a prefix of U.
C4_SufficientPrefix ==
    ( /\ gen_pc = "done"
      /\ gen_outputs # <<>>
      /\ 0 < GenTarget
      /\ GenTarget + gen_tx_fee <= SumOfUtxos(gen_utxos) )
    => GenReturnsSufficientPrefix

\* a call that needs two of three unspents, with the fee of the funding actions
C4_Witness ==
    /\ gen_pc = "done"
    /\ gen_tx_fee = TX_FEE
    /\ 0 < GenTarget
    /\ GenTarget + gen_tx_fee <= SumOfUtxos(gen_utxos)
    /\ Len(gen_utxos) = 3
    /\ gen_result.ok
    /\ Len(gen_result.val.inputs) = 2

\* C5: every returned transaction has inputs - outputs = fee; a surplus goes to
\* exactly one change output, appended last and paying the caller's own P2PKH
\* script; without surplus nothing is added; the caller's outputs are kept. One
\* input of 100000000, one output of 50000000 and fee 1000 give outputs
\* 50000000 and 49999000.
C5_ChangeConservation ==
    (gen_pc = "done" /\ gen_result.ok) =>
      LET tx == gen_result.val
          spent == SumOfInputs(tx.inputs)
          due == GenTarget + gen_tx_fee
      IN  /\ spent - SumOfOutputs(tx.outputs) = gen_tx_fee
          /\ spent > due =>
               tx.outputs = Append(gen_outputs,
                                   [ value |-> spent - due,
                                     script_pubkey |-> build_p2pkh(MyAddressHash) ])
          /\ spent = due => tx.outputs = gen_outputs
          /\ ( /\ Len(gen_utxos) = 1
               /\ gen_utxos[1].amount \div SatFraction = 100000000
               /\ Len(gen_outputs) = 1
               /\ gen_outputs[1].value = 50000000
               /\ gen_tx_fee = 1000 )
             => /\ Len(tx.outputs) = 2
                /\ tx.outputs[1].value = 50000000
                /\ tx.outputs[2].value = 49999000

\* the 100000000 / 50000000 / 1000 example has been built
C5_Witness ==
    /\ gen_pc = "done"
    /\ Len(gen_utxos) = 1
    /\ gen_utxos[1].amount \div SatFraction = 100000000
    /\ Len(gen_outputs) = 1
    /\ gen_outputs[1].value = 50000000
    /\ gen_tx_fee = 1000
    /\ gen_result.ok
    /\ Len(gen_result.val.outputs) = 2

\* the error due for the arguments, "" when a transaction is due
GenExpectedError ==
    IF gen_utxos = <<>> THEN ERR_EMPTY_UTXOS
    ELSE IF gen_outputs = <<>> THEN ERR_EMPTY_OUTPUTS
    ELSE IF GenTarget = 0 THEN ERR_ZERO_TARGET
    ELSE IF SumOfUtxos(gen_utxos) < GenTarget + gen_tx_fee THEN ERR_NOT_ENOUGH
    ELSE ""

\* C6: generate_transaction returns an error in exactly four cases (no unspents,
\* no outputs, zero total, unspents below outputs + fee), a different one for
\* each, the first cause in this order winning; otherwise it returns a
\* transaction with at least one input and one output.
C6_ErrorCases ==
    /\ Cardinality({ERR_EMPTY_UTXOS, ERR_EMPTY_OUTPUTS, ERR_ZERO_TARGET,
                    ERR_NOT_ENOUGH, ""}) = 5
    /\ gen_pc = "done" =>
         IF GenExpectedError = ""
         THEN /\ gen_result.ok
              /\ Len(gen_result.val.inputs) >= 1
              /\ Len(gen_result.val.outputs) >= 1
         ELSE /\ ~gen_result.ok
              /\ gen_result.err = GenExpectedError

\* two causes at once (zero total and too few funds): the zero total is reported
C6_Witness ==
    /\ gen_pc = "done"
    /\ gen_utxos # <<>>
    /\ gen_outputs # <<>>
    /\ GenTarget = 0
    /\ SumOfUtxos(gen_utxos) < GenTarget + gen_tx_fee
    /\ ~gen_result.ok
    /\ gen_result.err = ERR_ZERO_TARGET


(***************************************************************************)
(* SpecSwap: the HTLC actions of one swap between buyer A and seller B     *)
(***************************************************************************)
\* the latest clock reading of a run
MaxNow == 4

\* the time locks a swap may agree on
TimeLocks == {2, 3}

\* the seller's secret: 32 bytes, or something of another length
Secrets == { [kind |-> "secret", len |-> 32, id |-> 1],
             [kind |-> "secret", len |-> 16, id |-> 2] }

\* the f64 amounts of an HTLC funding: 500 and 20000 satoshi
SwapAmounts == { 500 * SatFraction, 20000 * SatFraction + (SatFraction - 1) }

\* a raw private key as a caller may pass it: the 32 bytes, or a short slice
RawPrivs(k) == { PrivBytes(k), [PrivBytes(k) EXCEPT !.len = 31] }

\* the unspents of a wallet that can fund either amount
SwapWallet ==
    Ok(<< [txid |-> TxidAt(1), vout |-> 0, amount |-> 100000 * SatFraction] >>)

SwapWalletAmounts == << Ok(100000) >>

SwapInit ==
    /\ sw_time_lock \in TimeLocks
    /\ sw_secret \in Secrets
    /\ sw_overflow_checks \in BOOLEAN
    /\ sw_now = 0
    /\ sw_buyer_payment = Err("none")
    /\ sw_seller_payment = Err("none")
    /\ sw_last = [action |-> "none"]
    /\ GenIdle
    /\ FundIdle
    /\ ElIdle
    /\ ExIdle
    /\ RawIdle
    /\ RqIdle
    /\ SvIdle
    /\ CfIdle
    /\ PrIdle
    /\ SpIdle
    /\ LsIdle
    /\ IdIdle
    /\ RcIdle
    /\ NxIdle
    /\ CkIdle

\* the clock advances
SwTick ==
    /\ sw_now < MaxNow
    /\ sw_now' = sw_now + 1
    /\ UNCHANGED << sw_time_lock, sw_secret, sw_overflow_checks,
                    sw_buyer_payment, sw_seller_payment, sw_last >>
    /\ SwapFrame

\* the buyer A funds htlc with the public keys of the swap
SwSendBuyerPayment ==
    /\ ~sw_buyer_payment.ok
    /\ \E amount \in SwapAmounts, sign_ok \in BOOLEAN :
         LET coin == Coin("A", 1)
             call == send_buyer_payment(coin, sw_time_lock, PubBytes("A"), PubBytes("B"),
                                        dhash160(sw_secret), amount)
             res == send_outputs_continuation(coin, SwapWallet, call.val.outputs,
                                              call.val.redeem_script,
                                              SwapWalletAmounts, sign_ok)
         IN  /\ sw_buyer_payment' = res
             /\ sw_last' = [action |-> "send_buyer_payment", now |-> sw_now,
                            result |-> res]
    /\ UNCHANGED << sw_time_lock, sw_secret, sw_overflow_checks, sw_now,
                    sw_seller_payment >>
    /\ SwapFrame

\* the seller B funds htlc with the public keys of the swap
SwSendSellerPayment ==
    /\ ~sw_seller_payment.ok
    /\ \E amount \in SwapAmounts, sign_ok \in BOOLEAN :
         LET coin == Coin("B", 1)
             call == send_seller_payment(coin, sw_time_lock, PubBytes("A"), PubBytes("B"),
                                         dhash160(sw_secret), amount)
             res == send_outputs_continuation(coin, SwapWallet, call.val.outputs,
                                              call.val.redeem_script,
                                              SwapWalletAmounts, sign_ok)
         IN  /\ sw_seller_payment' = res
             /\ sw_last' = [action |-> "send_seller_payment", now |-> sw_now,
                            result |-> res]
    /\ UNCHANGED << sw_time_lock, sw_secret, sw_overflow_checks, sw_now,
                    sw_buyer_payment >>
    /\ SwapFrame

\* what a spend action leaves behind
SpendRecord(action, prev, priv, res) ==
    [action |-> action, now |-> sw_now, prev |-> prev, priv |-> priv, result |-> res]

SwSpendUnchanged ==
    /\ UNCHANGED << sw_time_lock, sw_secret, sw_overflow_checks, sw_now,
                    sw_buyer_payment, sw_seller_payment >>
    /\ SwapFrame

\* the seller B claims the buyer's payment with the secret
SwSellerSpendsBuyerPayment ==
    /\ sw_buyer_payment.ok
    /\ \E b_priv_0 \in RawPrivs("B"), sign_ok \in BOOLEAN :
         sw_last' = SpendRecord("send_seller_spends_buyer_payment",
                      sw_buyer_payment.val, b_priv_0,
                      send_seller_spends_buyer_payment(Coin("B", 1), sw_buyer_payment.val,
                          b_priv_0, sw_secret, sw_now, sw_overflow_checks, sign_ok))
    /\ SwSpendUnchanged

\* the buyer A claims the seller's payment with the secret
SwBuyerSpendsSellerPayment ==
    /\ sw_seller_payment.ok
    /\ \E a_priv_0 \in RawPrivs("A"), sign_ok \in BOOLEAN :
         sw_last' = SpendRecord("send_buyer_spends_seller_payment",
                      sw_seller_payment.val, a_priv_0,
                      send_buyer_spends_seller_payment(Coin("A", 1), sw_seller_payment.val,
                          a_priv_0, sw_secret, sw_now, sw_overflow_checks, sign_ok))
    /\ SwSpendUnchanged

\* the buyer A takes the own payment back
SwBuyerRefundsPayment ==
    /\ sw_buyer_payment.ok
    /\ \E a_priv_0 \in RawPrivs("A"), sign_ok \in BOOLEAN :
         sw_last' = SpendRecord("send_buyer_refunds_payment",
                      sw_buyer_payment.val, a_priv_0,
                      send_buyer_refunds_payment(Coin("A", 1), sw_buyer_payment.val,
                          a_priv_0, sw_now, sw_overflow_checks, sign_ok))
    /\ SwSpendUnchanged

\* the seller B takes the own payment back
SwSellerRefundsPayment ==
    /\ sw_seller_payment.ok
    /\ \E b_priv_0 \in RawPrivs("B"), sign_ok \in BOOLEAN :
         sw_last' = SpendRecord("send_seller_refunds_payment",
                      sw_seller_payment.val, b_priv_0,
                      send_seller_refunds_payment(Coin("B", 1), sw_seller_payment.val,
                          b_priv_0, sw_now, sw_overflow_checks, sign_ok))
    /\ SwSpendUnchanged

\* the other party reads the secret from the spend built last
SwExtractSecret ==
    /\ sw_last.action \in {"send_seller_spends_buyer_payment", "send_buyer_spends_seller_payment",
                           "send_buyer_refunds_payment", "send_seller_refunds_payment"}
    /\ sw_last.result.ok
    /\ sw_last' = [action |-> "extract_secret", of |-> sw_last.action,
                   tx |-> sw_last.result.val, result |-> extract_secret(sw_last.result.val)]
    /\ SwSpendUnchanged

SwapNext ==
    \/ SwTick
    \/ SwExtractSecret
    \/ SwSendBuyerPayment
    \/ SwSendSellerPayment
    \/ SwSellerSpendsBuyerPayment
    \/ SwBuyerSpendsSellerPayment
    \/ SwBuyerRefundsPayment
    \/ SwSellerRefundsPayment

SpecSwap == SwapInit /\ [][SwapNext]_vars

(***************************************************************************)
(* Properties of SpecSwap                                                  *)
(***************************************************************************)
RefundActions == {"send_buyer_refunds_payment", "send_seller_refunds_payment"}
ClaimActions == {"send_seller_spends_buyer_payment", "send_buyer_spends_seller_payment"}

\* the last action was a spend of one of these names that built a transaction
Built(actions) == sw_last.action \in actions /\ sw_last.result.ok

BuiltTx == sw_last.result.val.transaction

\* the parts of the script_sig of a P2SH spend: the instructions before the
\* redeem script, the selector that OP_IF pops, and the redeem script
SigPart(tx) == tx.inputs[1].script_sig[1]
Selector(tx) == tx.inputs[1].script_sig[Len(tx.inputs[1].script_sig) - 1]
RedeemOf(tx) == tx.inputs[1].script_sig[Len(tx.inputs[1].script_sig)].data.script

PositionOf(script, opcode) == CHOOSE i \in 1..Len(script) : script[i].opcode = opcode

\* the instructions that run after OP_IF has popped the selector: OP_1 is true
\* and runs the part up to OP_ELSE, OP_0 is false and runs the part after it
ExecutedBranch(redeem, selector) ==
    IF selector = Op("OP_1")
    THEN SubSeq(redeem, PositionOf(redeem, "OP_IF") + 1, PositionOf(redeem, "OP_ELSE") - 1)
    ELSE SubSeq(redeem, PositionOf(redeem, "OP_ELSE") + 1, PositionOf(redeem, "OP_ENDIF") - 1)

\* the public key that the OP_CHECKSIG of a branch checks
CheckedKey(branch) == branch[PositionOf(branch, "OP_CHECKSIG") - 1].data

HasCltv(branch) == \E i \in 1..Len(branch) : branch[i].opcode = "OP_CHECKLOCKTIMEVERIFY"

\* BIP65: OP_CHECKLOCKTIMEVERIFY passes when the pushed lock time is at most
\* the transaction's and the input is not final
CltvPasses(tx, branch) ==
    \A i \in 1..Len(branch) :
        branch[i].opcode = "OP_CHECKLOCKTIMEVERIFY" =>
            /\ branch[i - 1].data.value <= tx.lock_time
            /\ tx.inputs[1].sequence # [hi |-> 65535, lo |-> 65535]

\* a transaction is final at chain time t when its lock time has passed or
\* all its inputs are final
IsFinalAt(tx, t) ==
    \/ tx.lock_time = 0
    \/ tx.lock_time < t
    \/ \A i \in 1..Len(tx.inputs) : tx.inputs[i].sequence = [hi |-> 65535, lo |-> 65535]

ValidForInclusionAt(tx, t) ==
    /\ IsFinalAt(tx, t)
    /\ CltvPasses(tx, ExecutedBranch(RedeemOf(tx), Selector(tx)))

SpendsOutputZeroOfFunding(tx) ==
    /\ Len(tx.inputs) = 1
    /\ tx.inputs[1].previous_output.hash = TxHash(sw_last.prev.transaction)
    /\ tx.inputs[1].previous_output.index = 0

\* C8: a refund action builds one input with sequence 0xFFFFFFFE, lock_time =
\* the current time and a script_sig <sig> OP_1 <redeem_script>; a claim action
\* builds one input with sequence 0xFFFFFFFF and a script_sig
\* <sig> <secret> OP_0 <redeem_script>; each spends output 0 of the funding
\* transaction it was given.
C8_SpendShapes ==
    /\ Built(RefundActions) =>
         /\ SpendsOutputZeroOfFunding(BuiltTx)
         /\ BuiltTx.inputs[1].sequence = [hi |-> 65535, lo |-> 65534]
         /\ BuiltTx.lock_time = sw_last.now
         /\ Len(BuiltTx.inputs[1].script_sig) = 3
         /\ SigPart(BuiltTx).data.kind = "sig"
         /\ Selector(BuiltTx) = [opcode |-> "OP_1", data |-> NoData]
         /\ RedeemOf(BuiltTx) = sw_last.prev.redeem_script.script
    /\ Built(ClaimActions) =>
         /\ SpendsOutputZeroOfFunding(BuiltTx)
         /\ BuiltTx.inputs[1].sequence = [hi |-> 65535, lo |-> 65535]
         /\ Len(BuiltTx.inputs[1].script_sig) = 4
         /\ SigPart(BuiltTx).data.kind = "sig"
         /\ BuiltTx.inputs[1].script_sig[2].data = sw_secret
         /\ Selector(BuiltTx) = [opcode |-> "OP_0", data |-> NoData]
         /\ RedeemOf(BuiltTx) = sw_last.prev.redeem_script.script

\* a refund has been built after the clock left zero
C8_Witness ==
    /\ Built(RefundActions)
    /\ sw_last.now > 0
    /\ BuiltTx.inputs[1].sequence = [hi |-> 65535, lo |-> 65534]

\* the party a spend action belongs to
PartyOf(action) ==
    IF action \in {"send_seller_spends_buyer_payment", "send_seller_refunds_payment"}
    THEN "B" ELSE "A"

\* C9: the buyer's payment is htlc(refund key A, claim key B), the seller's is
\* htlc(refund key B, claim key A); the seller's spend actions sign with B's
\* private key and the buyer's with A's; so every spend action signs with the
\* private key of the public key that the branch it selects checks.
C9_KeyRolesAgree ==
    /\ sw_buyer_payment.ok =>
         LET redeem == sw_buyer_payment.val.redeem_script.script
         IN  /\ CheckedKey(ExecutedBranch(redeem, Op("OP_1"))) = PubBytes("A")
             /\ CheckedKey(ExecutedBranch(redeem, Op("OP_0"))) = PubBytes("B")
    /\ sw_seller_payment.ok =>
         LET redeem == sw_seller_payment.val.redeem_script.script
         IN  /\ CheckedKey(ExecutedBranch(redeem, Op("OP_1"))) = PubBytes("B")
             /\ CheckedKey(ExecutedBranch(redeem, Op("OP_0"))) = PubBytes("A")
    /\ Built(RefundActions \cup ClaimActions) =>
         /\ SigPart(BuiltTx).data.signer = PrivBytes(PartyOf(sw_last.action))
         /\ CheckedKey(ExecutedBranch(RedeemOf(BuiltTx), Selector(BuiltTx)))
              = PubBytes(SigPart(BuiltTx).data.signer.key)

\* the seller has built a refund of the seller's own payment
C9_Witness ==
    /\ Built({"send_seller_refunds_payment"})
    /\ SigPart(BuiltTx).data.signer = PrivBytes("B")
    /\ sw_buyer_payment.ok

\* C10: a refund built at time now carries lock_time = now and a non-final
\* sequence, passes the refund branch's OP_CHECKLOCKTIMEVERIFY only if
\* now >= L, and is valid for inclusion at no time before L; a claim runs a
\* branch without OP_CHECKLOCKTIMEVERIFY and is final at every time.
C10_RefundOnlyAfterTimeLock ==
    /\ Built(RefundActions) =>
         LET branch == ExecutedBranch(RedeemOf(BuiltTx), Selector(BuiltTx))
         IN  /\ BuiltTx.lock_time = sw_last.now
             /\ BuiltTx.inputs[1].sequence # [hi |-> 65535, lo |-> 65535]
             /\ HasCltv(branch)
             /\ CltvPasses(BuiltTx, branch) => sw_last.now >= sw_time_lock
             /\ \A t \in 0..(MaxNow + 1) :
                    ValidForInclusionAt(BuiltTx, t) => t >= sw_time_lock
    /\ Built(ClaimActions) =>
         /\ ~HasCltv(ExecutedBranch(RedeemOf(BuiltTx), Selector(BuiltTx)))
         /\ \A t \in 0..(MaxNow + 1) : ValidForInclusionAt(BuiltTx, t)

\* a refund has been built before the time lock
C10_Witness ==
    /\ Built(RefundActions)
    /\ sw_last.now < sw_time_lock
    /\ ~CltvPasses(BuiltTx, ExecutedBranch(RedeemOf(BuiltTx), Selector(BuiltTx)))

\* C11: extract_secret applied to the claim transaction that
\* send_seller_spends_buyer_payment or send_buyer_spends_seller_payment built
\* with a 32-byte secret s returns exactly s.
C11_SecretRoundTrip ==
    ( /\ sw_last.action = "extract_secret"
      /\ sw_last.of \in ClaimActions
      /\ sw_secret.len = 32 ) =>
        sw_last.result = [ok |-> TRUE, val |-> sw_secret]

\* the secret has been read from a claim of the seller's payment
C11_Witness ==
    /\ sw_last.action = "extract_secret"
    /\ sw_last.of = "send_buyer_spends_seller_payment"
    /\ sw_secret.len = 32
    /\ sw_last.result.ok

(***************************************************************************)
(* SpecFund: funding actions that overlap on one wallet                    *)
(***************************************************************************)
\* the funding actions in flight at once
NTasks == 2

Tasks == 1..NTasks

FundKinds == {"send_buyer_fee", "send_buyer_payment", "send_seller_payment"}

\* the f64 amounts a funding action is asked for: 20000 and 100000 satoshi
FundAmounts == { 20000 * SatFraction, 100000 * SatFraction }

\* the unspents of the wallet's address when the actions start
FundWallets ==
    { { [txid |-> TxidAt(1), vout |-> 0, amount |-> 100000 * SatFraction] },
      { [txid |-> TxidAt(1), vout |-> 0, amount |-> 30000 * SatFraction],
        [txid |-> TxidAt(2), vout |-> 1, amount |-> 100000 * SatFraction] } }

\* the txid the node gives the transaction of task t
NodeTxid(t) == TxidAt(8 + t)

\* list_unspent_ordered: the unspents sorted by amount; the comparator never
\* answers Equal, so equal amounts come in any order
SortedListings(unspents) ==
    { l \in [1..Cardinality(unspents) -> unspents] :
        /\ \A i, j \in 1..Cardinality(unspents) : i < j => l[i] # l[j]
        /\ \A i, j \in 1..Cardinality(unspents) : i < j => l[i].amount <= l[j].amount }

\* a public key as a caller may pass it: the 33 bytes, or a short slice
RawPubs(k) == { PubBytes(k), [PubBytes(k) EXCEPT !.len = 20] }

\* the outputs and the redeem script a funding action hands to
\* send_outputs_from_my_address, or the error it returns before
FundingCall(coin, kind, other_pub, amount) ==
    IF kind = "send_buyer_fee" THEN send_buyer_fee(coin, other_pub, amount)
    ELSE IF kind = "send_buyer_payment"
    THEN send_buyer_payment(coin, 2, PubBytes("A"), other_pub,
                            dhash160([kind |-> "secret", len |-> 32, id |-> 1]), amount)
    ELSE send_seller_payment(coin, 2, PubBytes("A"), other_pub,
                             dhash160([kind |-> "secret", len |-> 32, id |-> 1]), amount)

FundInit ==
    /\ f_pc = [t \in Tasks |-> "idle"]
    /\ f_call = [t \in Tasks |-> Err("none")]
    /\ f_env = [t \in Tasks |-> [fault |-> "none", listed |-> Err("none")]]
    /\ f_tx = [t \in Tasks |-> Err("none")]
    /\ f_result = [t \in Tasks |-> Err("none")]
    /\ node_unspent \in FundWallets
    /\ sent_requests = {}
    /\ utxo_mutex = "unlocked"
    /\ GenIdle
    /\ SwapIdle
    /\ ElIdle
    /\ ExIdle
    /\ RawIdle
    /\ RqIdle
    /\ SvIdle
    /\ CfIdle
    /\ PrIdle
    /\ SpIdle
    /\ LsIdle
    /\ IdIdle
    /\ RcIdle
    /\ NxIdle
    /\ CkIdle

\* a funding action is called and issues list_unspent_ordered
FundCall(t) ==
    /\ f_pc[t] = "idle"
    /\ \E kind \in FundKinds, other_pub \in RawPubs("B"), amount \in FundAmounts :
         LET call == FundingCall(Coin("A", 1), kind, other_pub, amount)
         IN  /\ f_call' = [f_call EXCEPT ![t] = call]
             /\ f_pc' = [f_pc EXCEPT ![t] = IF call.ok THEN "listing" ELSE "error"]
             /\ f_result' = [f_result EXCEPT ![t] = IF call.ok THEN @ ELSE call]
    /\ UNCHANGED << f_env, f_tx, node_unspent, sent_requests, utxo_mutex >>
    /\ FundFrame

\* the listing answers and the closure of send_outputs_from_my_address runs
\* up to its call of send_raw_tx
FundListResp(t) ==
    /\ f_pc[t] = "listing"
    /\ \E fault \in {"none", "list", "amount", "sign"},
          listing \in SortedListings(node_unspent) :
         LET unspents == IF fault = "list" THEN Err("list_unspent failed")
                         ELSE Ok(listing)
             amounts == [ i \in 1..Len(listing) |->
                            IF fault = "amount" THEN Err("get_raw_transaction failed")
                            ELSE Ok(listing[i].amount \div SatFraction) ]
             res == send_outputs_continuation(Coin("A", 1), unspents,
                        f_call[t].val.outputs, f_call[t].val.redeem_script,
                        amounts, fault # "sign")
         IN  /\ f_env' = [f_env EXCEPT ![t] = [fault |-> fault, listed |-> unspents]]
             /\ f_tx' = [f_tx EXCEPT ![t] = res]
             /\ f_pc' = [f_pc EXCEPT ![t] = IF res.ok THEN "sending" ELSE "error"]
             /\ f_result' = [f_result EXCEPT ![t] = IF res.ok THEN @ ELSE res]
             /\ sent_requests' = IF res.ok THEN sent_requests \cup {t} ELSE sent_requests
    /\ UNCHANGED << f_call, node_unspent, utxo_mutex >>
    /\ FundFrame

\* the unspents of the node that the inputs of a transaction spend
SpentBy(tx) ==
    { u \in node_unspent :
        \E i \in 1..Len(tx.inputs) :
            /\ tx.inputs[i].previous_output.hash = Reversed(u.txid)
            /\ tx.inputs[i].previous_output.index = u.vout }

\* the unspents that a transaction adds to the wallet's address
PaidBackBy(tx, t) ==
    { [txid |-> NodeTxid(t), vout |-> i - 1, amount |-> tx.outputs[i].value * SatFraction] :
        i \in { j \in 1..Len(tx.outputs) :
                  tx.outputs[j].script_pubkey = build_p2pkh(MyAddressHash) } }

\* the node answers send_raw_transaction: it takes a transaction whose inputs
\* are all unspent and refuses any other
FundSendResp(t) ==
    /\ f_pc[t] = "sending"
    /\ LET tx == f_tx[t].val.transaction
           accepted == Cardinality(SpentBy(tx)) = Len(tx.inputs)
       IN  /\ node_unspent' = IF accepted
                              THEN (node_unspent \ SpentBy(tx)) \cup PaidBackBy(tx, t)
                              ELSE node_unspent
           /\ f_pc' = [f_pc EXCEPT ![t] = IF accepted THEN "done" ELSE "error"]
           /\ f_result' = [f_result EXCEPT ![t] =
                             IF accepted THEN f_tx[t]
                             ELSE Err("send_raw_transaction: inputs missing or spent")]
    /\ UNCHANGED << f_call, f_env, f_tx, sent_requests, utxo_mutex >>
    /\ FundFrame

FundNext ==
    \E t \in Tasks :
        \/ FundCall(t)
        \/ FundListResp(t)
        \/ FundSendResp(t)

SpecFund == FundInit /\ [][FundNext]_vars

(***************************************************************************)
(* Properties of SpecFund                                                  *)
(***************************************************************************)
\* the outpoints that the transaction built by task t spends
OutpointsOf(t) ==
    { f_tx[t].val.transaction.inputs[i].previous_output :
        i \in 1..Len(f_tx[t].val.transaction.inputs) }

\* the listing and coin selection of a task never runs while another task
\* is between its own listing and the answer to its broadcast
ListingExcluded ==
    [][ \A t \in Tasks :
          (f_pc[t] = "listing" /\ f_pc'[t] # "listing") =>
              \A u \in Tasks \ {t} : f_pc[u] # "sending" ]_vars

\* no two transactions handed to send_raw_transaction spend a common outpoint
DisjointOutpoints ==
    \A t \in sent_requests, u \in sent_requests :
        t # u => OutpointsOf(t) \cap OutpointsOf(u) = {}

\* C1: two overlapping funding actions on one wallet are serialized between
\* listing and broadcast, so their transactions spend no common outpoint.
C1_Original == ListingExcluded /\ []DisjointOutpoints

\* the satoshis that a listing holds, as coin selection counts them
ListedSats(listed) == SumOfUtxos(listed)

\* the environment made a funding action fail before its broadcast: the
\* listing, the selection, an input amount or the signature
FailedBeforeBroadcast(t) ==
    \/ f_env[t].fault \in {"list", "amount", "sign"}
    \/ /\ f_env[t].listed.ok
       /\ ListedSats(f_env[t].listed.val) < SumOfOutputs(f_call[t].val.outputs) + 1000

\* C7: when listing, coin selection, fetching an input amount or signing
\* fails, the funding action resolves with an error and no
\* send_raw_transaction request is issued for it.
C7_NoBroadcastAfterFailure ==
    \A t \in Tasks :
        (f_pc[t] \notin {"idle", "listing"} /\ f_call[t].ok /\ FailedBeforeBroadcast(t)) =>
            /\ f_pc[t] = "error"
            /\ ~f_result[t].ok
            /\ t \notin sent_requests

\* a funding action has failed for insufficient funds after another one has
\* been broadcast
C7_Witness ==
    \E t \in Tasks, u \in Tasks :
        /\ f_pc[t] = "error"
        /\ f_env[t].fault = "none"
        /\ f_env[t].listed.ok
        /\ f_result[t] = Err(ERR_NOT_ENOUGH)
        /\ f_pc[u] = "done"

(***************************************************************************)
(* SpecElectrum: ElectrumClient::send_transaction over several servers     *)
(***************************************************************************)
\* the configured Electrum servers
NServers == 2
\* the polls of scripthash.listunspent that a run follows
MaxPolls == 3

Servers == 1..NServers

\* what the servers list for the wallet's script before the transaction
ElUnspents ==
    { [tx_hash |-> TxidAt(1), tx_pos |-> 0, value |-> 30000],
      [tx_hash |-> TxidAt(2), tx_pos |-> 1, value |-> 100000] }

\* the hash of the transaction and the change output it pays to the script
BroadcastHash == TxidAt(9)
ElChange == [tx_hash |-> BroadcastHash, tx_pos |-> 1, value |-> 5000]

\* the input of a transaction that spends an unspent
ElInput(unspent) ==
    [ previous_output |-> [hash |-> Reversed(unspent.tx_hash), index |-> unspent.tx_pos],
      sequence |-> SEQUENCE_FINAL ]

\* the transactions sent: one spends the smaller unspent, one spends both
ElInputLists ==
    { << ElInput([tx_hash |-> TxidAt(1), tx_pos |-> 0, value |-> 30000]) >>,
      << ElInput([tx_hash |-> TxidAt(1), tx_pos |-> 0, value |-> 30000]),
         ElInput([tx_hash |-> TxidAt(2), tx_pos |-> 1, value |-> 100000]) >> }

\* the unspents a server lists: the inputs are gone once it has indexed the
\* transaction
ServerUnspents(s) ==
    IF el_server[s] = "indexed"
    THEN { u \in ElUnspents :
             \A i \in 1..Len(el_inputs) : el_inputs[i] # ElInput(u) } \cup {ElChange}
    ELSE ElUnspents

\* a server's answer to blockchain.scripthash.listunspent, which may repeat
\* an entry
ServerListing(s, repeats) ==
    LET n == Cardinality(ServerUnspents(s))
        l == CHOOSE f \in [1..n -> ServerUnspents(s)] :
                 \A i, j \in 1..n : i < j => f[i].tx_hash[1] < f[j].tx_hash[1]
    IN  IF repeats THEN l \o << l[1] >> ELSE l

RECURSIVE Dedup(_, _)
\* scripthash_list_unspent: keep the first entry of every (tx_hash, tx_pos)
Dedup(unspents, seen) ==
    IF unspents = <<>> THEN <<>>
    ELSE IF << Head(unspents).tx_hash, Head(unspents).tx_pos >> \in seen
    THEN Dedup(Tail(unspents), seen)
    ELSE << Head(unspents) >>
           \o Dedup(Tail(unspents),
                    seen \cup { << Head(unspents).tx_hash, Head(unspents).tx_pos >> })

\* electrum_request_multi: the request goes to the connected servers in
\* order and the first that succeeds answers; 0 when none does
Responder(failing) ==
    IF \A s \in Servers : ~el_connected[s] \/ s \in failing THEN 0
    ELSE CHOOSE s \in Servers :
            /\ el_connected[s] /\ s \notin failing
            /\ \A r \in Servers : (el_connected[r] /\ r \notin failing) => s <= r

ERR_DISCONNECTED == "All electrums are currently disconnected"

RequestError ==
    IF \A s \in Servers : ~el_connected[s] THEN Err(ERR_DISCONNECTED)
    ELSE Err("all requests failed")

scripthash_list_unspent(failing, repeats) ==
    IF Responder(failing) = 0 THEN RequestError
    ELSE Ok(Dedup(ServerListing(Responder(failing), repeats), {}))

\* lines 975-983: a spent outpoint is still among the unspents
StillListed_unreversed(unspents, inputs) ==
    \E i \in 1..Len(inputs), j \in 1..Len(unspents) :
        /\ unspents[j].tx_hash = inputs[i].previous_output.hash
        /\ unspents[j].tx_pos = inputs[i].previous_output.index

StillListed(unspents, inputs) ==
    \E i \in 1..Len(inputs), j \in 1..Len(unspents) :
        /\ unspents[j].tx_hash = Reversed(inputs[i].previous_output.hash)
        /\ unspents[j].tx_pos = inputs[i].previous_output.index

\* lines 967-985: what one answer of scripthash_list_unspent makes of the
\* loop; an error keeps it going, as does a spent outpoint still listed
LoopTurn_breaks_on_error(unspents, inputs) ==
    IF ~unspents.ok THEN "Break"
    ELSE IF StillListed(unspents.val, inputs) THEN "Continue"
    ELSE "Break"

LoopTurn(unspents, inputs) ==
    IF ~unspents.ok THEN "Continue"
    ELSE IF StillListed(unspents.val, inputs) THEN "Continue"
    ELSE "Break"

\* lines 943-949: the comparator handed to sort_unstable_by
CompareValue_reversed(a, b) == IF a.value > b.value THEN "Less" ELSE "Greater"
CompareValue(a, b) == IF a.value < b.value THEN "Less" ELSE "Greater"

\* sort_unstable_by: the elements in any order in which none is Less than
\* one before it; entries that do not compare Less either way may come out
\* in either order
SortUnstableBy(result) ==
    LET n == Len(result)
        orders == { f \in [1..n -> 1..n] : \A i, j \in 1..n : i < j => f[i] # f[j] }
    IN  { r \in { [ i \in 1..n |-> result[f[i]] ] : f \in orders } :
            \A i, j \in 1..n : i < j => CompareValue(r[j], r[i]) # "Less" }

\* lines 943-949: sort_unstable_by on the values, smallest first
SortedByValue(result) == CHOOSE r \in SortUnstableBy(result) : TRUE

\* ElectrumClient::list_unspent_ordered
ElListUnspentOrdered(failing, repeats) ==
    LET unspents == scripthash_list_unspent(failing, repeats)
    IN  IF ~unspents.ok THEN unspents
        ELSE Ok(SortedByValue(
                  [ i \in 1..Len(unspents.val) |->
                      [ outpoint |-> [hash |-> Reversed(unspents.val[i].tx_hash),
                                      index |-> unspents.val[i].tx_pos],
                        value |-> unspents.val[i].value ] ]))

ElInit ==
    /\ el_inputs \in ElInputLists
    /\ el_connected = [s \in Servers |-> TRUE]
    /\ el_server = [s \in Servers |-> "unseen"]
    /\ el_pc = "start"
    /\ el_broadcast = Err("none")
    /\ el_polls = 0
    /\ el_last_poll = Err("none")
    /\ el_result = Err("none")
    /\ el_listed = Err("none")
    /\ GenIdle
    /\ SwapIdle
    /\ FundIdle
    /\ ExIdle
    /\ RawIdle
    /\ RqIdle
    /\ SvIdle
    /\ CfIdle
    /\ PrIdle
    /\ SpIdle
    /\ LsIdle
    /\ IdIdle
    /\ RcIdle
    /\ NxIdle
    /\ CkIdle

\* blockchain.transaction.broadcast and its answer
ElBroadcast ==
    /\ el_pc = "start"
    /\ \E failing \in SUBSET Servers :
         IF Responder(failing) = 0
         THEN /\ el_pc' = "failed"
              /\ el_result' = RequestError
              /\ UNCHANGED << el_server, el_broadcast >>
         ELSE /\ el_pc' = "polling"
              /\ el_broadcast' = Ok(BroadcastHash)
              /\ el_server' = [el_server EXCEPT ![Responder(failing)] = "accepted"]
              /\ UNCHANGED el_result
    /\ UNCHANGED << el_inputs, el_connected, el_polls, el_last_poll, el_listed >>
    /\ ElFrame

\* one turn of the loop: a second passes, scripthash_list_unspent answers, and
\* the loop goes on or breaks with the broadcast's answer
ElPoll ==
    /\ el_pc = "polling"
    /\ el_polls < MaxPolls
    /\ \/ \* the Delay fails and the future resolves with its error
          /\ el_pc' = "failed"
          /\ el_result' = Err("timer error")
          /\ UNCHANGED << el_polls, el_last_poll >>
       \/ \E failing \in SUBSET Servers, repeats \in BOOLEAN :
            LET unspents == scripthash_list_unspent(failing, repeats)
            IN  /\ el_last_poll' = unspents
                /\ el_polls' = el_polls + 1
                /\ IF LoopTurn(unspents, el_inputs) = "Continue"
                   THEN UNCHANGED << el_pc, el_result >>
                   ELSE /\ el_pc' = "resolved"
                        /\ el_result' = el_broadcast
    /\ UNCHANGED << el_inputs, el_connected, el_server, el_broadcast, el_listed >>
    /\ ElFrame

\* a server recognizes that the outpoints of the transaction are spent
ElIndex(s) ==
    /\ el_server[s] = "accepted"
    /\ el_server' = [el_server EXCEPT ![s] = "indexed"]
    /\ UNCHANGED << el_inputs, el_connected, el_pc, el_broadcast, el_polls,
                    el_last_poll, el_result, el_listed >>
    /\ ElFrame

\* the transaction reaches a server from another one
ElRelay(s) ==
    /\ el_server[s] = "unseen"
    /\ \E r \in Servers : el_server[r] # "unseen"
    /\ el_server' = [el_server EXCEPT ![s] = "accepted"]
    /\ UNCHANGED << el_inputs, el_connected, el_pc, el_broadcast, el_polls,
                    el_last_poll, el_result, el_listed >>
    /\ ElFrame

\* connect_loop: a connection drops, and comes back
ElDisconnect(s) ==
    /\ el_connected[s]
    /\ el_connected' = [el_connected EXCEPT ![s] = FALSE]
    /\ UNCHANGED << el_inputs, el_server, el_pc, el_broadcast, el_polls,
                    el_last_poll, el_result, el_listed >>
    /\ ElFrame

ElReconnect(s) ==
    /\ ~el_connected[s]
    /\ el_connected' = [el_connected EXCEPT ![s] = TRUE]
    /\ UNCHANGED << el_inputs, el_server, el_pc, el_broadcast, el_polls,
                    el_last_poll, el_result, el_listed >>
    /\ ElFrame

\* a list_unspent_ordered call made after send_transaction has resolved
ElListUnspent ==
    /\ el_pc = "resolved"
    /\ \E failing \in SUBSET Servers, repeats \in BOOLEAN :
         el_listed' = ElListUnspentOrdered(failing, repeats)
    /\ UNCHANGED << el_inputs, el_connected, el_server, el_pc, el_broadcast,
                    el_polls, el_last_poll, el_result >>
    /\ ElFrame

ElNext ==
    \/ ElBroadcast
    \/ ElPoll
    \/ ElListUnspent
    \/ \E s \in Servers :
         \/ ElIndex(s)
         \/ ElRelay(s)
         \/ ElDisconnect(s)
         \/ ElReconnect(s)

SpecElectrum == ElInit /\ [][ElNext]_vars

(***************************************************************************)
(* Properties of SpecElectrum                                              *)
(***************************************************************************)
\* the outpoints that the transaction spends
ElSpentOutpoints == { el_inputs[i].previous_output : i \in 1..Len(el_inputs) }

\* C2: send_transaction resolves successfully only after the broadcast
\* succeeded and a later scripthash.listunspent answer held none of the spent
\* outpoints; at least one poll precedes it, and it resolves with the hash
\* that the broadcast returned.
C2_ResolvesAfterCleanPoll ==
    (el_pc = "resolved" \/ el_result.ok) =>
        /\ el_pc = "resolved"
        /\ el_broadcast.ok
        /\ el_polls >= 1
        /\ el_last_poll.ok
        /\ \A j \in 1..Len(el_last_poll.val) :
              [ hash |-> Reversed(el_last_poll.val[j].tx_hash),
                index |-> el_last_poll.val[j].tx_pos ] \notin ElSpentOutpoints
        /\ el_result = Ok(BroadcastHash)
        /\ el_result = el_broadcast

\* it has resolved after a poll that made the loop go on
C2_Witness ==
    /\ el_pc = "resolved"
    /\ el_polls >= 2
    /\ el_result.ok

\* C3: after send_transaction has resolved, every list_unspent_ordered answer
\* holds none of the outpoints that the transaction spent, whichever
\* connected server answers.
C3_Original ==
    (el_pc = "resolved" /\ el_listed.ok) =>
        \A j \in 1..Len(el_listed.val) :
            el_listed.val[j].outpoint \notin ElSpentOutpoints

(***************************************************************************)
(* SpecExtract: extract_secret applied to bounded transactions             *)
(***************************************************************************)
\* the longest script_sig handed to extract_secret, in instructions
MaxInstructions == 3

\* what the script_sig of an input may hold
ExInstructions ==
    { Push([kind |-> "secret", len |-> 32, id |-> 1]),
      Push([kind |-> "secret", len |-> 16, id |-> 2]),
      Push([kind |-> "sig", len |-> 72, id |-> 3]),
      Op("OP_0"),
      Op("OP_1"),
      Malformed }

ExScripts == UNION { [1..n -> ExInstructions] : n \in 0..MaxInstructions }

\* transactions with no input, or with one input that carries a script_sig
ExTransactions ==
    { [transaction |-> [inputs |-> << >>], redeem_script |-> ScriptBytes(<< >>)] }
    \cup { [ transaction |-> [inputs |-> << [script_sig |-> script] >>],
             redeem_script |-> ScriptBytes(<< >>) ] : script \in ExScripts }

ExInit ==
    /\ ex_tx \in ExTransactions
    /\ ex_pc = "call"
    /\ ex_result = Err("none")
    /\ GenIdle
    /\ SwapIdle
    /\ FundIdle
    /\ ElIdle
    /\ RawIdle
    /\ RqIdle
    /\ SvIdle
    /\ CfIdle
    /\ PrIdle
    /\ SpIdle
    /\ LsIdle
    /\ IdIdle
    /\ RcIdle
    /\ NxIdle
    /\ CkIdle

ExtractSecret ==
    /\ ex_pc = "call"
    /\ ex_result' = extract_secret(ex_tx)
    /\ ex_pc' = "done"
    /\ UNCHANGED ex_tx
    /\ ExFrame

ExNext == ExtractSecret

SpecExtract == ExInit /\ [][ExNext]_vars

(***************************************************************************)
(* Properties of SpecExtract                                               *)
(***************************************************************************)
\* instruction 1 (from 0) of the first input's script_sig is a 32-byte push
ExHasSecretPush ==
    /\ Len(ex_tx.transaction.inputs) >= 1
    /\ Len(ex_tx.transaction.inputs[1].script_sig) >= 2
    /\ ex_tx.transaction.inputs[1].script_sig[2].opcode = "OP_PUSHBYTES_32"

\* C12: extract_secret returns Ok(d) exactly when instruction 1 of
\* inputs[0].script_sig is a 32-byte push carrying d; in every other case
\* (fewer than two instructions, another opcode at 1, a script that does not
\* parse, no inputs) it returns the "Couldn't extract secret" error as a value.
C12_Original ==
    ex_pc = "done" =>
        /\ ex_result.ok <=> ExHasSecretPush
        /\ ex_result.ok => ex_result.val = ex_tx.transaction.inputs[1].script_sig[2].data
        /\ ~ex_result.ok => ex_result = [ok |-> FALSE, err |-> "Couldn't extract secret"]

(***************************************************************************)
(* SpecRaw: an ExtendedUtxoTx written to raw bytes and read back           *)
(***************************************************************************)
\* the longest transaction serialization and the longest redeem script, in bytes
MaxTxBytes == 3
MaxRedeemBytes == 2

ByteValues == {0, 1}

RawTransactions ==
    { [bytes |-> b] :
        b \in { c \in UNION { [1..n -> ByteValues] : n \in 1..MaxTxBytes } : c[1] = 1 } }

RawRedeemScripts == UNION { [1..n -> ByteValues] : n \in 0..MaxRedeemBytes }

RawInit ==
    /\ raw_e \in [transaction : RawTransactions, redeem_script : RawRedeemScripts]
    /\ raw_bytes = << >>
    /\ raw_pc = "start"
    /\ raw_result = Err("none")
    /\ GenIdle
    /\ SwapIdle
    /\ FundIdle
    /\ ElIdle
    /\ ExIdle
    /\ RqIdle
    /\ SvIdle
    /\ CfIdle
    /\ PrIdle
    /\ SpIdle
    /\ LsIdle
    /\ IdIdle
    /\ RcIdle
    /\ NxIdle
    /\ CkIdle

ToRawBytes ==
    /\ raw_pc = "start"
    /\ raw_bytes' = to_raw_bytes(raw_e)
    /\ raw_pc' = "encoded"
    /\ UNCHANGED << raw_e, raw_result >>
    /\ RawFrame

TxFromRawBytes ==
    /\ raw_pc = "encoded"
    /\ raw_result' = tx_from_raw_bytes(raw_bytes)
    /\ raw_pc' = "decoded"
    /\ UNCHANGED << raw_e, raw_bytes >>
    /\ RawFrame

RawNext == ToRawBytes \/ TxFromRawBytes

SpecRaw == RawInit /\ [][RawNext]_vars

(***************************************************************************)
(* Properties of SpecRaw                                                   *)
(***************************************************************************)
\* C13: the raw bytes of e are the u32-LE length of the transaction bytes,
\* the transaction bytes, the u32-LE length of the redeem script and the
\* redeem script, and tx_from_raw_bytes of them returns the transaction and
\* the redeem script of e.
C13_RawRoundTrip ==
    /\ raw_pc # "start" =>
         LET n == Len(raw_e.transaction.bytes)
             r == Len(raw_e.redeem_script)
         IN  /\ Len(raw_bytes) = 8 + n + r
             /\ SubSeq(raw_bytes, 1, 4) = << n, 0, 0, 0 >>
             /\ SubSeq(raw_bytes, 5, 4 + n) = raw_e.transaction.bytes
             /\ SubSeq(raw_bytes, 5 + n, 8 + n) = << r, 0, 0, 0 >>
             /\ SubSeq(raw_bytes, 9 + n, 8 + n + r) = raw_e.redeem_script
    /\ raw_pc = "decoded" =>
         /\ raw_result.ok
         /\ raw_result.val.transaction = raw_e.transaction
         /\ raw_result.val.redeem_script = raw_e.redeem_script

\* a transaction with a redeem script has been read back
C13_Witness ==
    /\ raw_pc = "decoded"
    /\ raw_result.ok
    /\ Len(raw_e.redeem_script) >= 1
    /\ Len(raw_e.transaction.bytes) >= 2

(***************************************************************************)
(* SpecRequest: electrum_request_multi over the connections of one client  *)
(***************************************************************************)
\* the calls made, and the seconds that pass in one step of the clock
NRequests == 2
TickSeconds == 30

ELECTRUM_TIMEOUT == 60

Requests == 1..NRequests
Methods == {"server.ping", "blockchain.scripthash.listunspent"}

ERR_SEND == "send failed because receiver is gone"
ERR_TIMED_OUT == "future timed out"

\* the futures of one call: one electrum_request for every connection whose
\* sender slot is Some, in the order of client.connections; nothing is
\* written before a future is polled
ConnectedFutures(tx) == SelectSeq([s \in Servers |-> [server |-> s, st |-> "new", open |-> TRUE]], LAMBDA f : tx[f.server])

NoneConnected_never(futures) == FALSE

NoneConnected(futures) == Len(futures) = 0

IsSequential_never(method) == FALSE

IsSequential_always(method) == TRUE

IsSequential(method) == method # "server.ping"

Expired_never(elapsed) == FALSE

\* the Delay of a request's timeout is created with the future, so every
\* future of one call expires ELECTRUM_TIMEOUT seconds after the call
Expired(elapsed) == elapsed >= ELECTRUM_TIMEOUT

ResponseFor_any(map, id) == map

\* responses.remove(&request_id): the map has at most one response per key
ResponseFor(map, id) == {x \in map : x.id = id}

Failed(f) == f.st \in {"send_failed", "timed_out"}

Written(f) == f.st \in {"sent", "done", "timed_out"}

\* one poll of the future made by electrum_request: the send into the
\* channel (once), then the look into the response map, then the timeout
PollRequest(f, id, expired, map) ==
    LET sends == f.st = "new" /\ f.open
        found == ResponseFor(map, id)
    IN  IF f.st = "new" /\ ~f.open
        THEN [f |-> [f EXCEPT !.st = "send_failed"], wrote |-> FALSE, took |-> {}, ready |-> TRUE, res |-> Err(ERR_SEND)]
        ELSE IF found # {}
        THEN [f |-> [f EXCEPT !.st = "done"], wrote |-> sends, took |-> found, ready |-> TRUE, res |-> Ok(CHOOSE x \in found : TRUE)]
        ELSE IF expired
        THEN [f |-> [f EXCEPT !.st = "timed_out"], wrote |-> sends, took |-> {}, ready |-> TRUE, res |-> Err(ERR_TIMED_OUT)]
        ELSE [f |-> [f EXCEPT !.st = "sent"], wrote |-> sends, took |-> {}, ready |-> FALSE, res |-> Err("none")]

\* one poll of select_ok_sequential (sequential) or of select_ok: the futures
\* are polled in order from position i; a failed future is removed and the
\* next one is polled in the same poll; select_ok also goes on after a future
\* that is not ready, select_ok_sequential stops there; the error of the
\* future that failed last is the error of the whole
RECURSIVE PollFutures(_, _, _, _, _, _, _)
PollFutures(fs, i, id, expired, maps, sequential, last) ==
    IF i > Len(fs)
    THEN [fs |-> fs, writes |-> {}, maps |-> maps, ready |-> \A k \in 1..Len(fs) : Failed(fs[k]), res |-> last]
    ELSE IF Failed(fs[i])
    THEN PollFutures(fs, i + 1, id, expired, maps, sequential, last)
    ELSE LET s == fs[i].server
             p == PollRequest(fs[i], id, expired, maps[s])
             fs2 == [fs EXCEPT ![i] = p.f]
             maps2 == [maps EXCEPT ![s] = @ \ p.took]
             w == IF p.wrote THEN {s} ELSE {}
             here == [fs |-> fs2, writes |-> w, maps |-> maps2, ready |-> p.ready, res |-> IF p.ready THEN p.res ELSE last]
             rest == PollFutures(fs2, i + 1, id, expired, maps2, sequential, IF p.ready THEN p.res ELSE last)
         IN  IF (p.ready /\ p.res.ok) \/ (~p.ready /\ sequential)
             THEN here
             ELSE [rest EXCEPT !.writes = w \cup @]

IdleRequest == [pc |-> "idle", id |-> 0, method |-> "", futures |-> << >>, elapsed |-> 0, result |-> Err("none")]

RqInit ==
    /\ rq_tx = [s \in Servers |-> FALSE]
    /\ rq_channel = [s \in Servers |-> {}]
    /\ rq_responses = [s \in Servers |-> {}]
    /\ rq_next_id = 0
    /\ rq_req = [r \in Requests |-> IdleRequest]
    /\ GenIdle
    /\ SwapIdle
    /\ FundIdle
    /\ ElIdle
    /\ ExIdle
    /\ RawIdle
    /\ SvIdle
    /\ CfIdle
    /\ PrIdle
    /\ SpIdle
    /\ LsIdle
    /\ IdIdle
    /\ RcIdle
    /\ NxIdle
    /\ CkIdle

\* the state after a poll of the call's future: the writes reach the
\* channels, a response that was read leaves its map, and the call ends when
\* the future is ready
RqAfterPoll(r, req, p) ==
    /\ rq_channel' = [s \in Servers |-> IF s \in p.writes THEN rq_channel[s] \cup {req.id} ELSE rq_channel[s]]
    /\ rq_responses' = p.maps
    /\ rq_req' = [rq_req EXCEPT ![r] = [req EXCEPT !.futures = p.fs, !.pc = IF p.ready THEN "done" ELSE "pending", !.result = IF p.ready THEN p.res ELSE req.result]]

\* rpc_func!: the request takes the next id; electrum_request_multi collects
\* the futures, fails at once when there is none, and otherwise polls the
\* selection for the first time in the same stretch of the calling task
RqIssue(r, method) ==
    /\ rq_req[r].pc = "idle"
    /\ LET id == rq_next_id + 1
           futures == ConnectedFutures(rq_tx)
           req == [IdleRequest EXCEPT !.id = id, !.method = method, !.futures = futures]
       IN  /\ rq_next_id' = id
           /\ IF NoneConnected(futures)
              THEN /\ rq_req' = [rq_req EXCEPT ![r] = [req EXCEPT !.pc = "done", !.result = Err(ERR_DISCONNECTED)]]
                   /\ UNCHANGED << rq_channel, rq_responses >>
              ELSE RqAfterPoll(r, req, PollFutures(futures, 1, id, FALSE, rq_responses, IsSequential(method), Err("none")))
    /\ UNCHANGED rq_tx
    /\ RqFrame

\* a later poll: the task is notified 200 ms after a poll that found
\* nothing, and by the Delay when the timeout has passed
RqPoll(r) ==
    /\ rq_req[r].pc = "pending"
    /\ LET req == rq_req[r]
       IN  RqAfterPoll(r, req, PollFutures(req.futures, 1, req.id, Expired(req.elapsed), rq_responses, IsSequential(req.method), Err("none")))
    /\ UNCHANGED << rq_tx, rq_next_id >>
    /\ RqFrame

\* time passes for every call in progress
RqTick ==
    /\ \E r \in Requests : rq_req[r].pc = "pending" /\ rq_req[r].elapsed < ELECTRUM_TIMEOUT
    /\ rq_req' = [r \in Requests |-> IF rq_req[r].pc = "pending" /\ rq_req[r].elapsed < ELECTRUM_TIMEOUT THEN [rq_req[r] EXCEPT !.elapsed = @ + TickSeconds] ELSE rq_req[r]]
    /\ UNCHANGED << rq_tx, rq_channel, rq_responses, rq_next_id >>
    /\ RqFrame

\* the connection passes a request of its channel to the server, the server
\* answers it, and electrum_process_chunk stores the response under its id;
\* requests are answered in any order
RqRespond(s, id) ==
    /\ rq_tx[s]
    /\ id \in rq_channel[s]
    /\ rq_channel' = [rq_channel EXCEPT ![s] = @ \ {id}]
    /\ rq_responses' = [rq_responses EXCEPT ![s] = {x \in @ : x.id # id} \cup {[id |-> id, result |-> s]}]
    /\ UNCHANGED << rq_tx, rq_next_id, rq_req >>
    /\ RqFrame

\* connect_loop fills the sender slot with the sender of a new channel
RqConnect(s) ==
    /\ ~rq_tx[s]
    /\ rq_tx' = [rq_tx EXCEPT ![s] = TRUE]
    /\ UNCHANGED << rq_channel, rq_responses, rq_next_id, rq_req >>
    /\ RqFrame

\* connect_loop empties the slot and drops the receiver with what the channel
\* holds: a future that has not sent yet holds the sender of a closed channel
RqDisconnect(s) ==
    /\ rq_tx[s]
    /\ rq_tx' = [rq_tx EXCEPT ![s] = FALSE]
    /\ rq_channel' = [rq_channel EXCEPT ![s] = {}]
    /\ rq_req' = [r \in Requests |-> IF rq_req[r].pc = "pending" THEN [rq_req[r] EXCEPT !.futures = [k \in 1..Len(@) |-> IF @[k].server = s THEN [@[k] EXCEPT !.open = FALSE] ELSE @[k]]] ELSE rq_req[r]]
    /\ UNCHANGED << rq_responses, rq_next_id >>
    /\ RqFrame

RqNext ==
    \/ \E r \in Requests, method \in Methods : RqIssue(r, method)
    \/ \E r \in Requests : RqPoll(r)
    \/ RqTick
    \/ \E s \in Servers, id \in 1..NRequests : RqRespond(s, id)
    \/ \E s \in Servers : RqConnect(s)
    \/ \E s \in Servers : RqDisconnect(s)

SpecRequest == RqInit /\ [][RqNext]_vars

\* the calls get their turn and the clock goes on: a future that found no
\* response is notified again after 200 ms, and the Delay notifies it when
\* the timeout has passed
\* the last call of a client whose earlier calls found every server
\* disconnected
RqLastCallInit ==
    /\ rq_tx = [s \in Servers |-> FALSE]
    /\ rq_channel = [s \in Servers |-> {}]
    /\ rq_responses = [s \in Servers |-> {}]
    /\ rq_next_id = NRequests - 1
    /\ rq_req = [r \in Requests |-> IF r = NRequests THEN IdleRequest ELSE [IdleRequest EXCEPT !.pc = "done", !.id = r, !.method = "server.ping", !.result = Err(ERR_DISCONNECTED)]]
    /\ GenIdle
    /\ SwapIdle
    /\ FundIdle
    /\ ElIdle
    /\ ExIdle
    /\ RawIdle
    /\ SvIdle
    /\ CfIdle
    /\ PrIdle
    /\ SpIdle
    /\ LsIdle
    /\ IdIdle
    /\ RcIdle
    /\ NxIdle
    /\ CkIdle

SpecRequestLive == RqLastCallInit /\ [][RqNext]_vars /\ WF_vars(RqTick) /\ \A r \in Requests : WF_vars(RqPoll(r))

\* C14: a request other than server.ping goes to the servers found connected
\* one at a time and in the configured order: it is written to the first of
\* them at once, a later server is written to only when the attempts on all
\* servers before it have failed, a successful call returns the response of
\* the first attempt that did not fail, and the call fails only when every
\* attempt has failed.
C14_SequentialInOrder ==
    \A r \in Requests :
        LET req == rq_req[r]
            fs == req.futures
        IN  (req.pc # "idle" /\ req.method # "server.ping" /\ Len(fs) > 0) =>
                /\ \A k \in 1..(Len(fs) - 1) : fs[k].server < fs[k + 1].server
                /\ fs[1].st # "new"
                /\ \A k \in 1..Len(fs) : fs[k].st # "new" => \A j \in 1..(k - 1) : Failed(fs[j])
                /\ (req.pc = "done" /\ req.result.ok) =>
                       \E k \in 1..Len(fs) :
                           /\ fs[k].st = "done"
                           /\ req.result.val = [id |-> req.id, result |-> fs[k].server]
                           /\ \A j \in (k + 1)..Len(fs) : fs[j].st = "new"
                /\ (req.pc = "done" /\ ~req.result.ok) => \A k \in 1..Len(fs) : Failed(fs[k])

\* the first server stayed silent until the timeout and the request then went
\* to the second one
C14_Witness ==
    \E r \in Requests :
        /\ rq_req[r].pc = "done"
        /\ rq_req[r].method # "server.ping"
        /\ Len(rq_req[r].futures) = 2
        /\ rq_req[r].futures[1].st = "timed_out"
        /\ Written(rq_req[r].futures[2])

C16_FailsAtOnceWhenDisconnected ==
    [][\A r \in Requests :
          (rq_req[r].pc = "idle" /\ rq_req'[r].pc # "idle" /\ \A s \in Servers : ~rq_tx[s]) =>
              /\ rq_req'[r].pc = "done"
              /\ rq_req'[r].result = Err(ERR_DISCONNECTED)
              /\ rq_req'[r].elapsed = 0
              /\ rq_channel' = rq_channel
              /\ rq_responses' = rq_responses]_vars

\* a request was issued with every server disconnected, after an earlier one
\* had been written to a server
C16_Witness ==
    \E r \in Requests :
        /\ rq_req[r].pc = "done"
        /\ rq_req[r].futures = << >>
        /\ rq_req[r].result = Err(ERR_DISCONNECTED)
        /\ rq_req[r].id = 2
        /\ \A s \in Servers : ~rq_tx[s]

\* C18: a call that ends with a response ends with a response that carries
\* the call's own id, that was stored in the map of one of its connections,
\* and that is no longer in that map afterwards, in whatever order the
\* responses arrived.
C18_OwnResponseReadOnce ==
    [][\A r \in Requests :
          (rq_req[r].pc # "done" /\ rq_req'[r].pc = "done" /\ rq_req'[r].result.ok) =>
              LET res == rq_req'[r].result.val
              IN  /\ res.id = rq_req'[r].id
                  /\ res \in rq_responses[res.result]
                  /\ \A x \in rq_responses'[res.result] : x.id # res.id]_vars

\* two calls wait on one connection, the response to the later one is read
\* while the response to the earlier one lies in the map
C18_Witness ==
    \E r1 \in Requests, r2 \in Requests, s \in Servers :
        /\ rq_req[r1].id > 0
        /\ rq_req[r1].id < rq_req[r2].id
        /\ rq_req[r1].pc = "pending"
        /\ rq_req[r2].pc = "done"
        /\ rq_req[r2].result = Ok([id |-> rq_req[r2].id, result |-> s])
        /\ [id |-> rq_req[r1].id, result |-> s] \in rq_responses[s]

\* C19: a call in progress ends: when no response is read within
\* ELECTRUM_TIMEOUT seconds of the call, the attempt fails with a timeout,
\* whether the request was written or not; and no attempt fails with a
\* timeout earlier.
C19_EndsByTimeout ==
    /\ [](\A r \in Requests : \A k \in 1..Len(rq_req[r].futures) : rq_req[r].futures[k].st = "timed_out" => rq_req[r].elapsed >= ELECTRUM_TIMEOUT)
    /\ \A r \in Requests : (rq_req[r].pc = "pending") ~> (rq_req[r].pc = "done")

\* a call on one connection that was never answered
C19_Witness ==
    \E r \in Requests :
        /\ rq_req[r].pc = "done"
        /\ Len(rq_req[r].futures) = 1
        /\ rq_req[r].futures[1].st = "timed_out"
        /\ rq_req[r].result = Err(ERR_TIMED_OUT)
        /\ rq_req[r].elapsed >= ELECTRUM_TIMEOUT

(***************************************************************************)
(* SpecSupervisor: the task of one connection, connect_loop selected       *)
(* against the shutdown signal                                             *)
(***************************************************************************)
MaxAttempts == 8
MaxChunks == 2

\* what can wake connect_loop: the end of the sleep before an attempt, the
\* outcome of the attempt, a chunk read from the stream, and the end of one
\* of last_chunk_f, recv_f and send_f
LoopEvents_no_retry == {"connect_fails", "connected", "chunk", "teardown"}
LoopEvents == {"sleep_ends", "connect_fails", "connected", "chunk", "teardown"}

\* try_loop!: the delay before the next attempt
NextDelay_uncapped(delay) == delay + 5
NextDelay(delay) == IF delay < 30 THEN delay + 5 ELSE delay

\* reset_tx_and_continue!: the sender slot after a connection has ended
reset_tx_kept(tx) == tx
reset_tx(tx) == FALSE

\* one step of connect_loop from the place pc: the new place, delay and
\* sender slot, and whether an attempt was begun or a chunk processed
connect_loop(pc, delay, tx, event) ==
    IF pc = "sleeping" /\ event = "sleep_ends"
    THEN [ok |-> TRUE, pc |-> "connecting", delay |-> delay, tx |-> tx, attempt |-> 1, chunk |-> 0]
    ELSE IF pc = "connecting" /\ event = "connect_fails"
    THEN [ok |-> TRUE, pc |-> "sleeping", delay |-> NextDelay(delay), tx |-> tx, attempt |-> 0, chunk |-> 0]
    ELSE IF pc = "connecting" /\ event = "connected"
    THEN [ok |-> TRUE, pc |-> "connected", delay |-> 0, tx |-> TRUE, attempt |-> 0, chunk |-> 0]
    ELSE IF pc = "connected" /\ event = "chunk"
    THEN [ok |-> TRUE, pc |-> "connected", delay |-> delay, tx |-> tx, attempt |-> 0, chunk |-> 1]
    ELSE IF pc = "connected" /\ event = "teardown"
    THEN [ok |-> TRUE, pc |-> "sleeping", delay |-> delay, tx |-> reset_tx(tx), attempt |-> 0, chunk |-> 0]
    ELSE [ok |-> FALSE]

ShutdownSeen_never(dropped) == FALSE

\* select_func(connect_loop, shutdown_rx): the receiver is ready once the
\* handle was dropped
ShutdownSeen(dropped) == dropped

SvInit ==
    /\ sv_pc = "sleeping"
    /\ sv_delay = 0
    /\ sv_tx = FALSE
    /\ sv_dropped = FALSE
    /\ sv_attempts = 0
    /\ sv_chunks = 0
    /\ sv_after_drop = 0
    /\ sv_failures = 0
    /\ GenIdle
    /\ SwapIdle
    /\ FundIdle
    /\ ElIdle
    /\ ExIdle
    /\ RawIdle
    /\ RqIdle
    /\ CfIdle
    /\ PrIdle
    /\ SpIdle
    /\ LsIdle
    /\ IdIdle
    /\ RcIdle
    /\ NxIdle
    /\ CkIdle

\* a poll of the task in which connect_loop has something to do: the
\* selection polls connect_loop first and the shutdown receiver after it
SvLoop(event) ==
    /\ sv_pc # "terminated"
    /\ LET step == connect_loop(sv_pc, sv_delay, sv_tx, event)
       IN  /\ step.ok
           /\ sv_attempts + step.attempt <= MaxAttempts
           /\ sv_chunks + step.chunk <= MaxChunks
           /\ sv_pc' = IF ShutdownSeen(sv_dropped) THEN "terminated" ELSE step.pc
           /\ sv_delay' = step.delay
           /\ sv_tx' = step.tx
           /\ sv_attempts' = sv_attempts + step.attempt
           /\ sv_chunks' = sv_chunks + step.chunk
           /\ sv_after_drop' = IF sv_dropped THEN sv_after_drop + step.attempt + step.chunk ELSE sv_after_drop
           /\ sv_failures' = IF event = "connect_fails" THEN sv_failures + 1
                              ELSE IF event = "connected" THEN 0 ELSE sv_failures
    /\ UNCHANGED sv_dropped
    /\ SvFrame

\* a poll of the task in which connect_loop is not ready and the shutdown
\* receiver is: the task ends and connect_loop is dropped where it stands
SvShutdown ==
    /\ sv_pc # "terminated"
    /\ ShutdownSeen(sv_dropped)
    /\ sv_pc' = "terminated"
    /\ UNCHANGED << sv_delay, sv_tx, sv_dropped, sv_attempts, sv_chunks, sv_after_drop, sv_failures >>
    /\ SvFrame

\* Drop for ElectrumConnection: shutdown_tx is taken and () is sent
SvDrop ==
    /\ ~sv_dropped
    /\ sv_dropped' = TRUE
    /\ UNCHANGED << sv_pc, sv_delay, sv_tx, sv_attempts, sv_chunks, sv_after_drop, sv_failures >>
    /\ SvFrame

SvNext ==
    \/ \E event \in LoopEvents : SvLoop(event)
    \/ SvShutdown
    \/ SvDrop

\* the send on the shutdown channel notifies the task, which is polled again
SpecSupervisor == SvInit /\ [][SvNext]_vars /\ WF_vars(SvShutdown)

MaxClock == 3
WaitUntil == 2
MaxRetries == 2
MaxQueries == 3

\* an integer as sign and magnitude, the magnitude in two 16-bit halves
Num(neg, hi, lo) == [error |-> FALSE, neg |-> neg, hi |-> hi, lo |-> lo]

MagGe(a, b) == a.hi > b.hi \/ (a.hi = b.hi /\ a.lo >= b.lo)

\* a >= b on the integers
NumGe(a, b) == IF a.neg # b.neg THEN ~a.neg ELSE IF a.neg THEN MagGe(b, a) ELSE MagGe(a, b)

\* transaction.confirmations as i32: a u32 from 2^31 on becomes negative
as_i32(c) == IF c.hi < 32768 THEN c ELSE IF c.lo = 0 THEN Num(TRUE, 65536 - c.hi, 0) ELSE Num(TRUE, 65535 - c.hi, 65536 - c.lo)

ConfirmationsReached_eq(kind, c, confirmations) == IF kind = "WaitForUtxoTxConfirmations" THEN as_i32(c) = confirmations ELSE c = confirmations

ConfirmationsReached_le(kind, c, confirmations) == IF kind = "WaitForUtxoTxConfirmations" THEN NumGe(confirmations, as_i32(c)) ELSE NumGe(confirmations, c)

\* the comparison of each poller: on i32 in WaitForUtxoTxConfirmations, on
\* u32 in wait_for_confirmations
ConfirmationsReached(kind, c, confirmations) == IF kind = "WaitForUtxoTxConfirmations" THEN NumGe(as_i32(c), confirmations) ELSE NumGe(c, confirmations)

\* what a node can answer: an error, or a transaction with a confirmations
\* field (some nodes give -1 for a transaction in the mempool)
RpcError == [error |-> TRUE, neg |-> FALSE, hi |-> 0, lo |-> 0]

NodeAnswers == {RpcError} \cup {Num(TRUE, 0, 1), Num(FALSE, 0, 0), Num(FALSE, 0, 1), Num(FALSE, 0, 2), Num(FALSE, 32768, 0), Num(FALSE, 65535, 65535)}

ERR_RPC == "rpc error"
ERR_NOT_U32 == "invalid value: expected u32"

\* the response as the client sees it: RpcTransaction.confirmations is a u32
get_verbose_transaction(answer) == IF answer.error THEN Err(ERR_RPC) ELSE IF answer.neg THEN Err(ERR_NOT_U32) ELSE Ok(answer)

\* the targets: an i32 for WaitForUtxoTxConfirmations, a u32 for
\* wait_for_confirmations
CfTargets(kind) == IF kind = "WaitForUtxoTxConfirmations" THEN {Num(TRUE, 32768, 0), Num(TRUE, 0, 1), Num(FALSE, 0, 0), Num(FALSE, 0, 1), Num(FALSE, 0, 2), Num(FALSE, 32767, 65535)} ELSE {Num(FALSE, 0, 0), Num(FALSE, 0, 1), Num(FALSE, 0, 2), Num(FALSE, 32768, 0), Num(FALSE, 65535, 65535)}

ERR_WAITED_TOO_LONG == "Waited too long"
ERR_WAITING == "Error waiting for tx confirmation"

CfInit ==
    /\ cf_kind \in {"WaitForUtxoTxConfirmations", "wait_for_confirmations"}
    /\ cf_confirmations \in CfTargets(cf_kind)
    /\ cf_max_retries \in 1..MaxRetries
    /\ cf_state = "WaitingForInterval"
    /\ cf_now = 0
    /\ cf_retries = 0
    /\ cf_queries = 0
    /\ cf_last = << >>
    /\ cf_result = Err("none")
    /\ GenIdle
    /\ SwapIdle
    /\ FundIdle
    /\ ElIdle
    /\ ExIdle
    /\ RawIdle
    /\ RqIdle
    /\ SvIdle
    /\ PrIdle
    /\ SpIdle
    /\ LsIdle
    /\ IdIdle
    /\ RcIdle
    /\ NxIdle
    /\ CkIdle

CfTick ==
    /\ cf_now < MaxClock
    /\ cf_now' = cf_now + 1
    /\ UNCHANGED << cf_kind, cf_confirmations, cf_max_retries, cf_state, cf_retries, cf_queries, cf_last, cf_result >>
    /\ CfFrame

PastDeadline_never(now, wait_until) == FALSE

\* now_ms() / 1000 > wait_until
PastDeadline(now, wait_until) == now > wait_until

\* self.retries >= self.max_retries, after the increment
RetriesExhausted(retries, max_retries) == retries >= max_retries

\* a poller as a value: which of the two it is, its target and retry limit,
\* its state, the failed queries, the queries made and the outcome
Poller(kind, confirmations, max_retries) == [kind |-> kind, confirmations |-> confirmations, max_retries |-> max_retries, wait_until |-> WaitUntil, state |-> "WaitingForInterval", retries |-> 0, queries |-> 0, result |-> Err("none")]

\* the interval (the sleep) has ended: past the deadline the poller fails,
\* otherwise it makes the next query
PollWaitingForInterval(p, now) ==
    IF PastDeadline(now, p.wait_until)
    THEN [p EXCEPT !.state = "done", !.result = Err(ERR_WAITED_TOO_LONG)]
    ELSE [p EXCEPT !.state = "CheckingConfirmations", !.queries = @ + 1]

\* the query is answered: enough confirmations resolve the poller; an error
\* counts as a retry in WaitForUtxoTxConfirmations, which gives up when the
\* retries reach max_retries, and is only logged in wait_for_confirmations
PollCheckingConfirmations(p, answer) ==
    LET tx == get_verbose_transaction(answer)
        counted == p.kind = "WaitForUtxoTxConfirmations" /\ ~tx.ok
        retries == IF counted THEN p.retries + 1 ELSE p.retries
    IN  IF tx.ok /\ ConfirmationsReached(p.kind, tx.val, p.confirmations)
        THEN [p EXCEPT !.state = "done", !.result = Ok("confirmed")]
        ELSE IF counted /\ RetriesExhausted(retries, p.max_retries)
        THEN [p EXCEPT !.state = "done", !.retries = retries, !.result = Err(ERR_WAITING)]
        ELSE [p EXCEPT !.state = "WaitingForInterval", !.retries = retries]

\* the poller of SpecConfirm as a value, and the state after one of its steps
CfPoller == [kind |-> cf_kind, confirmations |-> cf_confirmations, max_retries |-> cf_max_retries, wait_until |-> WaitUntil, state |-> cf_state, retries |-> cf_retries, queries |-> cf_queries, result |-> cf_result]

CfBecomes(p) ==
    /\ cf_state' = p.state
    /\ cf_retries' = p.retries
    /\ cf_queries' = p.queries
    /\ cf_result' = p.result
    /\ UNCHANGED << cf_kind, cf_confirmations, cf_max_retries, cf_now >>
    /\ CfFrame

CfInterval ==
    /\ cf_state = "WaitingForInterval"
    /\ PastDeadline(cf_now, WaitUntil) \/ cf_queries < MaxQueries
    /\ CfBecomes(PollWaitingForInterval(CfPoller, cf_now))
    /\ UNCHANGED cf_last

CfAnswer(answer) ==
    /\ cf_state = "CheckingConfirmations"
    /\ cf_last' = << answer >>
    /\ CfBecomes(PollCheckingConfirmations(CfPoller, answer))

CfNext ==
    \/ CfTick
    \/ CfInterval
    \/ \E answer \in NodeAnswers : CfAnswer(answer)

SpecConfirm == CfInit /\ [][CfNext]_vars

\* C20: a poller that resolved successfully did so on an answer that carried
\* a confirmation count, not negative, at least as large as the required
\* count; an answer with a smaller count (a negative count or zero against a
\* positive target among them) and an error never end the poller with
\* success.
C20_ResolvesOnlyWhenConfirmed ==
    /\ cf_result.ok => (cf_last # << >> /\ ~cf_last[1].error /\ ~cf_last[1].neg /\ NumGe(cf_last[1], cf_confirmations))
    /\ (cf_last # << >> /\ (cf_last[1].error \/ ~NumGe(cf_last[1], cf_confirmations))) => ~cf_result.ok

\* WaitForUtxoTxConfirmations resolved on a count of 2^31, which the cast
\* makes negative, against a negative target, after an answer it retried on
C20_Witness ==
    /\ cf_result.ok
    /\ cf_kind = "WaitForUtxoTxConfirmations"
    /\ cf_last = << Num(FALSE, 32768, 0) >>
    /\ cf_confirmations.neg
    /\ cf_queries >= 2

(***************************************************************************)
(* SpecConfirmPair: two confirmation pollers on the same answers and clock *)
(***************************************************************************)
PrInit ==
    /\ \E kind \in {"WaitForUtxoTxConfirmations", "wait_for_confirmations"}, m \in 1..MaxRetries :
           \E k \in CfTargets(kind), l \in CfTargets(kind) :
               /\ NumGe(k, l)
               /\ k # l
               /\ pr_a = Poller(kind, k, m)
               /\ pr_b = Poller(kind, l, m)
    /\ pr_now = 0
    /\ GenIdle
    /\ SwapIdle
    /\ FundIdle
    /\ ElIdle
    /\ ExIdle
    /\ RawIdle
    /\ RqIdle
    /\ SvIdle
    /\ CfIdle
    /\ SpIdle
    /\ LsIdle
    /\ IdIdle
    /\ RcIdle
    /\ NxIdle
    /\ CkIdle

PrTick ==
    /\ pr_now < MaxClock
    /\ pr_now' = pr_now + 1
    /\ UNCHANGED << pr_a, pr_b >>
    /\ PrFrame

\* the interval ends for both pollers and both read the same clock
PrInterval ==
    /\ \E p \in {pr_a, pr_b} : p.state = "WaitingForInterval" /\ (PastDeadline(pr_now, WaitUntil) \/ p.queries < MaxQueries)
    /\ pr_a' = IF pr_a.state = "WaitingForInterval" THEN PollWaitingForInterval(pr_a, pr_now) ELSE pr_a
    /\ pr_b' = IF pr_b.state = "WaitingForInterval" THEN PollWaitingForInterval(pr_b, pr_now) ELSE pr_b
    /\ UNCHANGED pr_now
    /\ PrFrame

\* the node's answer to the query reaches both pollers
PrAnswer(answer) ==
    /\ \E p \in {pr_a, pr_b} : p.state = "CheckingConfirmations"
    /\ pr_a' = IF pr_a.state = "CheckingConfirmations" THEN PollCheckingConfirmations(pr_a, answer) ELSE pr_a
    /\ pr_b' = IF pr_b.state = "CheckingConfirmations" THEN PollCheckingConfirmations(pr_b, answer) ELSE pr_b
    /\ UNCHANGED pr_now
    /\ PrFrame

PrNext ==
    \/ PrTick
    \/ PrInterval
    \/ \E answer \in NodeAnswers : PrAnswer(answer)

SpecConfirmPair == PrInit /\ [][PrNext]_vars

\* C21: of two pollers of the same kind that see the same answers and the
\* same clock, the one with the smaller target has resolved successfully
\* whenever the one with the larger target has, and after no more queries;
\* until it ends it has made the same queries and counted the same errors.
C21_SmallerTargetNoLater ==
    /\ pr_a.result.ok => (pr_b.result.ok /\ pr_b.queries <= pr_a.queries)
    /\ pr_b.state # "done" => (pr_a.state = pr_b.state /\ pr_a.queries = pr_b.queries /\ pr_a.retries = pr_b.retries)

\* both resolved, the smaller target on an earlier answer
C21_Witness ==
    /\ pr_a.result.ok
    /\ pr_b.result.ok
    /\ pr_b.queries < pr_a.queries
    /\ pr_a.kind = "WaitForUtxoTxConfirmations"

\* C22, as stated: WaitForUtxoTxConfirmations fails with 'Error waiting for
\* tx confirmation' only when more queries have failed than max_retries, and
\* it is still polling after max_retries failed queries.
C22_Original ==
    (cf_kind = "WaitForUtxoTxConfirmations" /\ cf_result = Err(ERR_WAITING)) => cf_retries > cf_max_retries

\* the clock goes on, the interval ticks and every query is answered
SpecConfirmLive == SpecConfirm /\ WF_vars(CfTick) /\ WF_vars(CfInterval) /\ WF_vars(\E answer \in NodeAnswers : CfAnswer(answer))

\* C23: a poller whose interval ends with the clock past the deadline fails
\* with 'Waited too long' and makes no query; a query is only made with the
\* clock not past the deadline, so no success comes from a query started
\* later; and when every query is answered the poller ends.
C23_DeadlineEndsPoller ==
    /\ [][(cf_state = "WaitingForInterval" /\ cf_now > WaitUntil /\ cf_state' # cf_state) => (cf_state' = "done" /\ cf_result' = Err(ERR_WAITED_TOO_LONG) /\ cf_queries' = cf_queries)]_vars
    /\ [][cf_queries' # cf_queries => cf_now <= WaitUntil]_vars
    /\ <>(cf_state = "done")

\* a poller that made queries and then met the deadline
C23_Witness ==
    /\ cf_state = "done"
    /\ cf_result = Err(ERR_WAITED_TOO_LONG)
    /\ cf_queries >= 1
    /\ cf_now > WaitUntil

\* ---------------------------------------------------------------------------
\* Spend detectors: find_output_spend of the native and the Electrum client
\* (rpc_clients.rs 376-395, 1032-1057) and wait_for_tx_spend with its
\* WaitForTxSpend future (utxo.rs 873-910, 1109-1211)
\* ---------------------------------------------------------------------------

\* the longest chain of blocks above the watched transaction
MaxHeight == 2
\* the most transactions of one block or one listing
MaxBlockTxs == 2

\* the most confirmation queries of the first phase of wait_for_tx_spend
MaxConfirmQueries == 2

\* both phases of wait_for_tx_spend are built with now_ms() / 1000 + 1000
INTERNAL_WAIT == 1000
InternalDeadline(now, wait_until) == now + INTERNAL_WAIT

SpKinds == {"NativeClient", "ElectrumClient", "wait_for_tx_spend"}

\* the transaction whose output is watched, and tx.hash()
WatchedTx == [hash |-> 1]
WatchedHash == WatchedTx.hash

PrevOut(hash, index) == [hash |-> hash, index |-> index]

\* the transactions the node may list: one spends output 0 of the watched
\* transaction, one spends its output 1 next to a foreign output, one spends
\* output 0 of another transaction
SpTransactions ==
    { [hash |-> 2, inputs |-> << PrevOut(WatchedHash, 0) >>],
      [hash |-> 3, inputs |-> << PrevOut(9, 0), PrevOut(WatchedHash, 1) >>],
      [hash |-> 4, inputs |-> << PrevOut(9, 0) >>] }

\* a block, or the listing of one query: distinct transactions in some order
SpBlocks ==
    { txs \in UNION { [1..n -> SpTransactions] : n \in 0..MaxBlockTxs } :
        \A i, j \in 1..Len(txs) : i # j => txs[i] # txs[j] }

SpChains == UNION { [1..n -> SpBlocks] : n \in 1..MaxHeight }

NoSpend == [some |-> FALSE]
SomeSpend(t) == [some |-> TRUE, tx |-> t]

\* input.previous_output.hash == tx.hash() && input.previous_output.index == vout
Spends_hash_only(t, hash, vout) ==
    \E k \in 1..Len(t.inputs) : t.inputs[k].hash = hash
Spends(t, hash, vout) ==
    \E k \in 1..Len(t.inputs) :
        t.inputs[k].hash = hash /\ t.inputs[k].index = vout

\* the loop over the listed transactions: the first one that spends the
\* output is returned; a transaction the node fails to return ends
\* find_output_spend with an error (try_s!) and is passed over by
\* WaitForTxSpend (Err(_e) => continue)
RECURSIVE InspectFrom(_, _, _, _, _, _)
InspectFrom(txs, i, hash, vout, unfetchable, skip) ==
    IF i > Len(txs) THEN Ok(NoSpend)
    ELSE IF txs[i].hash \in unfetchable
         THEN IF skip
              THEN InspectFrom(txs, i + 1, hash, vout, unfetchable, skip)
              ELSE Err(ERR_RPC)
         ELSE IF Spends(txs[i], hash, vout)
              THEN Ok(SomeSpend(txs[i]))
              ELSE InspectFrom(txs, i + 1, hash, vout, unfetchable, skip)

\* find_output_spend: the listing query may fail; the Electrum client takes a
\* history of fewer than two entries as unspent without reading any of it
find_output_spend(kind, listing_ok, txs, hash, vout, unfetchable) ==
    IF ~listing_ok THEN Err(ERR_RPC)
    ELSE IF kind = "ElectrumClient" /\ Len(txs) < 2 THEN Ok(NoSpend)
    ELSE InspectFrom(txs, 1, hash, vout, unfetchable, FALSE)

\* what the node answers to the confirmation query of the first phase
SpAnswers == {RpcError, Num(FALSE, 0, 0), Num(FALSE, 0, 1)}

\* wait_for_confirmations(tx, 1): ten retries, deadline set by the method
ConfirmationPhase(now, wait_until) ==
    [Poller("WaitForUtxoTxConfirmations", Num(FALSE, 0, 1), 10)
        EXCEPT !.wait_until = InternalDeadline(now, wait_until)]

\* WaitForTxSpend::new: output 0, starts by fetching the block of the
\* watched transaction
NewWaitForTxSpend(now, wait_until, height) ==
    [state |-> "GetBlock", vout |-> 0, current_height |-> height,
     wait_until |-> InternalDeadline(now, wait_until), retries |-> 0,
     max_retries |-> 10, scanned |-> << >>]

SpInit ==
    /\ sp_kind \in SpKinds
    /\ sp_vout \in (IF sp_kind = "wait_for_tx_spend" THEN {0} ELSE {0, 1})
    /\ sp_wait_until = WaitUntil
    /\ sp_chain \in (IF sp_kind = "wait_for_tx_spend"
                     THEN SpChains ELSE [1..1 -> SpBlocks])
    /\ sp_unfetchable \in {{}} \cup { {t.hash} : t \in SpTransactions }
    /\ sp_listing_ok \in (IF sp_kind = "wait_for_tx_spend" THEN {TRUE} ELSE BOOLEAN)
    /\ sp_now = 0
    /\ sp_phase = "start"
    /\ sp_poller = << >>
    /\ sp_scan = << >>
    /\ sp_result = Err("none")
    /\ GenIdle
    /\ SwapIdle
    /\ FundIdle
    /\ ElIdle
    /\ ExIdle
    /\ RawIdle
    /\ RqIdle
    /\ SvIdle
    /\ CfIdle
    /\ PrIdle
    /\ LsIdle
    /\ IdIdle
    /\ RcIdle
    /\ NxIdle
    /\ CkIdle

SpEnds(result) ==
    /\ sp_phase' = "done"
    /\ sp_result' = result

\* the clock moves by a second, early on, or by the length of the internal wait
SpTick(d) ==
    /\ sp_phase # "done"
    /\ IF d = 1 THEN sp_now < MaxClock
                ELSE sp_now < 2 * INTERNAL_WAIT
    /\ sp_now' = sp_now + d
    /\ UNCHANGED << sp_kind, sp_vout, sp_wait_until, sp_chain, sp_unfetchable, sp_listing_ok,
                    sp_phase, sp_poller, sp_scan, sp_result >>
    /\ SpFrame

\* one call of find_output_spend on the listing of the first block
SpFind ==
    /\ sp_phase = "start"
    /\ sp_kind \in {"NativeClient", "ElectrumClient"}
    /\ SpEnds(find_output_spend(sp_kind, sp_listing_ok, sp_chain[1], WatchedHash,
                                sp_vout, sp_unfetchable))
    /\ UNCHANGED << sp_kind, sp_vout, sp_wait_until, sp_chain, sp_unfetchable, sp_listing_ok,
                    sp_now, sp_poller, sp_scan >>
    /\ SpFrame

\* wait_for_tx_spend begins with wait_for_confirmations(tx, 1)
SpStart ==
    /\ sp_phase = "start"
    /\ sp_kind = "wait_for_tx_spend"
    /\ sp_phase' = "confirmations"
    /\ sp_poller' = ConfirmationPhase(sp_now, sp_wait_until)
    /\ UNCHANGED << sp_kind, sp_vout, sp_wait_until, sp_chain, sp_unfetchable, sp_listing_ok,
                    sp_now, sp_scan, sp_result >>
    /\ SpFrame

SpPollerBecomes(p) ==
    /\ sp_poller' = p
    /\ IF p.state # "done"
       THEN UNCHANGED << sp_phase, sp_result >>
       ELSE IF p.result.ok
            THEN sp_phase' = "get_raw_transaction" /\ UNCHANGED sp_result
            ELSE SpEnds(p.result)
    /\ UNCHANGED << sp_kind, sp_vout, sp_wait_until, sp_chain, sp_unfetchable, sp_listing_ok,
                    sp_now, sp_scan >>
    /\ SpFrame

SpConfirmInterval ==
    /\ sp_phase = "confirmations"
    /\ sp_poller.state = "WaitingForInterval"
    /\ PastDeadline(sp_now, sp_poller.wait_until) \/ sp_poller.queries < MaxConfirmQueries
    /\ SpPollerBecomes(PollWaitingForInterval(sp_poller, sp_now))

SpConfirmAnswer(answer) ==
    /\ sp_phase = "confirmations"
    /\ sp_poller.state = "CheckingConfirmations"
    /\ SpPollerBecomes(PollCheckingConfirmations(sp_poller, answer))

\* get_raw_transaction(txid, 1) gives the height of the watched transaction
SpHeight(ok) ==
    /\ sp_phase = "get_raw_transaction"
    /\ IF ok
       THEN /\ sp_phase' = "WaitForTxSpend"
            /\ sp_scan' = NewWaitForTxSpend(sp_now, sp_wait_until, 1)
            /\ UNCHANGED sp_result
       ELSE SpEnds(Err(ERR_RPC)) /\ UNCHANGED sp_scan
    /\ UNCHANGED << sp_kind, sp_vout, sp_wait_until, sp_chain, sp_unfetchable, sp_listing_ok,
                    sp_now, sp_poller >>
    /\ SpFrame

SpScanFrame ==
    /\ UNCHANGED << sp_kind, sp_vout, sp_wait_until, sp_chain, sp_unfetchable, sp_listing_ok,
                    sp_now, sp_poller >>
    /\ SpFrame

\* WaitForTxSpendState::WaitForInterval
SpInterval ==
    /\ sp_phase = "WaitForTxSpend"
    /\ sp_scan.state = "WaitForInterval"
    /\ IF PastDeadline(sp_now, sp_scan.wait_until)
       THEN SpEnds(Err(ERR_WAITED_TOO_LONG)) /\ UNCHANGED sp_scan
       ELSE /\ sp_scan' = [sp_scan EXCEPT !.state = "GetBlockCount"]
            /\ UNCHANGED << sp_phase, sp_result >>
    /\ SpScanFrame

\* WaitForTxSpendState::GetBlockCount
SpBlockCount(ok) ==
    /\ sp_phase = "WaitForTxSpend"
    /\ sp_scan.state = "GetBlockCount"
    /\ IF ~ok
       THEN SpEnds(Err(ERR_RPC)) /\ UNCHANGED sp_scan
       ELSE /\ sp_scan' = IF sp_scan.current_height < Len(sp_chain)
                          THEN [sp_scan EXCEPT !.current_height = @ + 1,
                                               !.state = "GetBlock"]
                          ELSE [sp_scan EXCEPT !.state = "WaitForInterval"]
            /\ UNCHANGED << sp_phase, sp_result >>
    /\ SpScanFrame

\* WaitForTxSpendState::GetBlock
SpBlock(ok) ==
    /\ sp_phase = "WaitForTxSpend"
    /\ sp_scan.state = "GetBlock"
    /\ IF ~ok
       THEN SpEnds(Err(ERR_RPC)) /\ UNCHANGED sp_scan
       ELSE LET found == InspectFrom(sp_chain[sp_scan.current_height], 1,
                                     WatchedHash, sp_scan.vout,
                                     sp_unfetchable, TRUE).val
                scan == [sp_scan EXCEPT !.scanned = Append(@, sp_scan.current_height)]
            IN  IF found.some
                THEN /\ SpEnds(Ok([transaction |-> found.tx, redeem_script |-> << >>]))
                     /\ sp_scan' = scan
                ELSE /\ sp_scan' = [scan EXCEPT !.state = "WaitForInterval"]
                     /\ UNCHANGED << sp_phase, sp_result >>
    /\ SpScanFrame

SpNext ==
    \/ \E d \in {1, INTERNAL_WAIT} : SpTick(d)
    \/ SpFind
    \/ SpStart
    \/ SpConfirmInterval
    \/ \E answer \in SpAnswers : SpConfirmAnswer(answer)
    \/ \E ok \in BOOLEAN : SpHeight(ok)
    \/ SpInterval
    \/ \E ok \in BOOLEAN : SpBlockCount(ok)
    \/ \E ok \in BOOLEAN : SpBlock(ok)

SpecSpend == SpInit /\ [][SpNext]_vars

\* an interval of either phase of wait_for_tx_spend ends
SpIntervalEnds ==
    \/ sp_phase = "confirmations" /\ sp_poller.state = "WaitingForInterval"
       /\ sp_poller' # sp_poller
    \/ sp_phase = "WaitForTxSpend" /\ sp_scan.state = "WaitForInterval"
       /\ (sp_scan' # sp_scan \/ sp_phase' # sp_phase)

\* C24 as stated: wait_for_tx_spend(tx, wait_until) keeps the caller's
\* deadline in both phases: an interval that ends with the clock past the
\* caller's wait_until ends the future with "Waited too long".  The code
\* drops the argument and gives both phases now + 1000.
C24_Original ==
    [][(sp_kind = "wait_for_tx_spend" /\ sp_now > sp_wait_until /\ SpIntervalEnds)
        => sp_result' = Err(ERR_WAITED_TOO_LONG)]_vars

\* the transactions a detector has been given to inspect
SpListed ==
    IF sp_kind = "wait_for_tx_spend"
    THEN UNION { { sp_chain[h][i] : i \in 1..Len(sp_chain[h]) } : h \in 1..Len(sp_chain) }
    ELSE { sp_chain[1][i] : i \in 1..Len(sp_chain[1]) }

\* C25: a spend detector returns a transaction only if one of its inputs has
\* the previous outpoint (watched hash, watched vout), and it returns that
\* transaction whole, as the node listed it; find_output_spend returns None
\* when its queries succeed and no listed transaction has such an input.
C25_OnlyTheSpender ==
    sp_phase = "done" =>
        /\ (sp_kind # "wait_for_tx_spend" /\ sp_result.ok /\ sp_result.val.some) =>
              /\ sp_result.val.tx \in SpListed
              /\ \E k \in 1..Len(sp_result.val.tx.inputs) :
                    sp_result.val.tx.inputs[k] = PrevOut(WatchedHash, sp_vout)
        /\ (sp_kind = "wait_for_tx_spend" /\ sp_result.ok) =>
              /\ sp_result.val.transaction \in SpListed
              /\ \E k \in 1..Len(sp_result.val.transaction.inputs) :
                    sp_result.val.transaction.inputs[k] = PrevOut(WatchedHash, sp_vout)
        /\ ( /\ sp_kind # "wait_for_tx_spend"
             /\ sp_listing_ok
             /\ \A t \in SpListed :
                    /\ t.hash \notin sp_unfetchable
                    /\ \A k \in 1..Len(t.inputs) :
                          t.inputs[k] # PrevOut(WatchedHash, sp_vout) )
           => sp_result = Ok(NoSpend)

\* find_output_spend returned the spender after passing over the transaction
\* listed before it
C25_Witness ==
    /\ sp_phase = "done"
    /\ sp_kind # "wait_for_tx_spend"
    /\ sp_result.ok
    /\ sp_result.val.some
    /\ Len(sp_chain[1]) = 2
    /\ sp_result.val.tx = sp_chain[1][2]

\* ---------------------------------------------------------------------------
\* list_unspent_ordered of the native and the Electrum client
\* (rpc_clients.rs 293-327, 885-899, 931-952)
\* ---------------------------------------------------------------------------

\* the most entries of one listing
MaxListed == 3

\* the entries a server may list: two outputs of one transaction with the
\* same value and a smaller output of another
LsUnspents ==
    { [tx_hash |-> TxidAt(1), tx_pos |-> 0, value |-> 50000],
      [tx_hash |-> TxidAt(1), tx_pos |-> 1, value |-> 50000],
      [tx_hash |-> TxidAt(2), tx_pos |-> 0, value |-> 30000] }

LsListings == UNION { [1..n -> LsUnspents] : n \in 0..MaxListed }

UnspentInfo(unspent) ==
    [ outpoint |-> [hash |-> Reversed(unspent.tx_hash), index |-> unspent.tx_pos],
      value |-> unspent.value ]

\* what list_unspent_ordered sorts: the Electrum client drops the repeated
\* entries of the listing, the native client asks for the amount of every
\* entry in turn and fails when one of the queries does
Collected(kind, listing_ok, listing, failing) ==
    IF ~listing_ok THEN Err(ERR_RPC)
    ELSE IF kind = "ElectrumClient"
    THEN LET unspents == Dedup(listing, {})
         IN  Ok([ i \in 1..Len(unspents) |-> UnspentInfo(unspents[i]) ])
    ELSE IF failing \in 1..Len(listing) THEN Err(ERR_RPC)
    ELSE Ok([ i \in 1..Len(listing) |-> UnspentInfo(listing[i]) ])

LsInit ==
    /\ ls_kind \in {"NativeClient", "ElectrumClient"}
    /\ ls_listing \in LsListings
    /\ ls_listing_ok \in BOOLEAN
    /\ ls_failing \in (IF ls_kind = "NativeClient" THEN 0..Len(ls_listing) ELSE {0})
    /\ ls_pc = "start"
    /\ ls_result = Err("none")
    /\ GenIdle
    /\ SwapIdle
    /\ FundIdle
    /\ ElIdle
    /\ ExIdle
    /\ RawIdle
    /\ RqIdle
    /\ SvIdle
    /\ CfIdle
    /\ PrIdle
    /\ SpIdle
    /\ IdIdle
    /\ RcIdle
    /\ NxIdle
    /\ CkIdle

LsListUnspentOrdered ==
    /\ ls_pc = "start"
    /\ ls_pc' = "done"
    /\ LET result == Collected(ls_kind, ls_listing_ok, ls_listing, ls_failing)
       IN  IF result.ok
           THEN \E sorted \in SortUnstableBy(result.val) : ls_result' = Ok(sorted)
           ELSE ls_result' = result
    /\ UNCHANGED << ls_kind, ls_listing, ls_listing_ok, ls_failing >>
    /\ LsFrame

LsNext == LsListUnspentOrdered

SpecList == LsInit /\ [][LsNext]_vars

\* how often an entry is in a sequence
LsCount(seq, e) == Cardinality({ i \in 1..Len(seq) : seq[i] = e })

\* C26: list_unspent_ordered returns the outputs in non-decreasing order of
\* value; the native client returns every listed entry as often as it was
\* listed, the Electrum client returns every listed (tx_hash, tx_pos) once;
\* nothing else is returned, and the call succeeds when its queries do.
C26_SortedPermutation ==
    ls_pc = "done" =>
        /\ (ls_listing_ok /\ ls_failing = 0) => ls_result.ok
        /\ ls_result.ok =>
              /\ \A i, j \in 1..Len(ls_result.val) :
                    i < j => ls_result.val[i].value <= ls_result.val[j].value
              /\ \A i \in 1..Len(ls_result.val) :
                    \E u \in LsUnspents : ls_result.val[i] = UnspentInfo(u)
              /\ \A u \in LsUnspents :
                    LsCount(ls_result.val, UnspentInfo(u)) =
                        IF ls_kind = "NativeClient" THEN LsCount(ls_listing, u)
                        ELSE IF LsCount(ls_listing, u) > 0 THEN 1 ELSE 0

\* the Electrum server listed the larger output twice, before the smaller one
C26_Witness ==
    /\ ls_pc = "done"
    /\ ls_kind = "ElectrumClient"
    /\ ls_result.ok
    /\ Len(ls_listing) = 3
    /\ ls_listing[1] = ls_listing[2]
    /\ ls_listing[1].value > ls_listing[3].value
    /\ Len(ls_result.val) = 2

\* C27: coin selection stops at the shortest sufficient prefix: the inputs of
\* a returned transaction are the first unspents of the list, without the
\* last one they sum to less than total outputs + fee, and so does every
\* shorter prefix of the list.
C27_ShortestSufficientPrefix ==
    (gen_pc = "done" /\ gen_result.ok) =>
        LET inputs == gen_result.val.inputs
            n == Len(inputs)
        IN  /\ n >= 1
            /\ InputsArePrefix(inputs, gen_utxos)
            /\ SumOfInputs(SubSeq(inputs, 1, n - 1)) < GenTarget + gen_tx_fee
            /\ \A k \in 0..(n - 1) :
                  SumOfUtxos(SubSeq(gen_utxos, 1, k)) < GenTarget + gen_tx_fee

\* two of three unspents are taken, the second brings more than is needed
\* and the third is left out
C27_Witness ==
    /\ gen_pc = "done"
    /\ gen_result.ok
    /\ Len(gen_utxos) = 3
    /\ Len(gen_result.val.inputs) = 2
    /\ gen_result.val.inputs[1].amount > 0
    /\ SumOfInputs(gen_result.val.inputs) > GenTarget + gen_tx_fee

\* C28: the reconnect delay is one of 0, 5, .., 30: after k failed attempts
\* in a row, counted from the start or from the last successful connect, it
\* is min(5k, 30); it is 0 while connected and when the connection is torn
\* down, so the attempt that follows is made with delay 0.
C28_DelayIsCappedBackoff ==
    /\ sv_delay \in {0, 5, 10, 15, 20, 25, 30}
    /\ sv_delay = IF 5 * sv_failures < 30 THEN 5 * sv_failures ELSE 30
    /\ sv_tx => sv_delay = 0
    /\ (sv_failures = 0 /\ sv_pc \in {"sleeping", "connecting"}) => sv_delay = 0

\* a seventh attempt in a row has failed
C28_Witness ==
    /\ sv_failures = 7
    /\ sv_delay = 30
    /\ sv_pc = "sleeping"

\* C29: while the task runs, the sender slot holds a sender exactly when
\* connect_loop is connected: not before the first connect, not while it
\* sleeps or connects, and not after a connection has ended.
C29_SenderIffConnected ==
    sv_pc # "terminated" => (sv_tx <=> sv_pc = "connected")

\* a second attempt is under way after a connection was torn down
C29_Witness ==
    /\ sv_pc = "connecting"
    /\ ~sv_tx
    /\ sv_attempts >= 2
    /\ sv_chunks >= 1
    /\ sv_failures = 0

\* ---------------------------------------------------------------------------
\* SpecIdle: connect_loop with the clock of electrum_last_chunk_loop
\* (rpc_clients.rs 1202-1210, 1249-1288)
\* ---------------------------------------------------------------------------

\* the clock runs for this many ticks of TickSeconds
MaxIdleTicks == 8

IdHorizon == MaxIdleTicks * TickSeconds

\* now_float() - last > ELECTRUM_TIMEOUT as f64
IdleTooLong_never(now, last) == FALSE
IdleTooLong(now, last) == now - last > ELECTRUM_TIMEOUT

IdInit ==
    /\ id_pc = "sleeping"
    /\ id_delay = 0
    /\ id_tx = FALSE
    /\ id_now = 0
    /\ id_last_chunk = 0
    /\ id_wake = 0
    /\ id_cause = "none"
    /\ GenIdle
    /\ SwapIdle
    /\ FundIdle
    /\ ElIdle
    /\ ExIdle
    /\ RawIdle
    /\ RqIdle
    /\ SvIdle
    /\ CfIdle
    /\ PrIdle
    /\ SpIdle
    /\ LsIdle
    /\ RcIdle
    /\ NxIdle
    /\ CkIdle

IdTick ==
    /\ id_now + TickSeconds <= IdHorizon
    /\ id_now' = id_now + TickSeconds
    /\ UNCHANGED << id_pc, id_delay, id_tx, id_last_chunk, id_wake, id_cause >>
    /\ IdFrame

\* a connection or a chunk comes early enough for the clock to run past the
\* two sleeps that may follow it
IdInTime == id_now + 2 * ELECTRUM_TIMEOUT <= IdHorizon

IdBecomes(step) ==
    /\ step.ok
    /\ id_pc' = step.pc
    /\ id_delay' = step.delay
    /\ id_tx' = step.tx
    /\ UNCHANGED id_now
    /\ IdFrame

\* the sleep before an attempt ends and the attempt begins
IdAttempt ==
    /\ IdBecomes(connect_loop(id_pc, id_delay, id_tx, "sleep_ends"))
    /\ UNCHANGED << id_last_chunk, id_wake, id_cause >>

IdConnectFails ==
    /\ IdBecomes(connect_loop(id_pc, id_delay, id_tx, "connect_fails"))
    /\ UNCHANGED << id_last_chunk, id_wake, id_cause >>

\* the connection is made: last_chunk is set to the time and the first sleep
\* of electrum_last_chunk_loop begins
IdConnected ==
    /\ IdInTime
    /\ IdBecomes(connect_loop(id_pc, id_delay, id_tx, "connected"))
    /\ id_last_chunk' = id_now
    /\ id_wake' = id_now + ELECTRUM_TIMEOUT
    /\ UNCHANGED id_cause

\* recv_f reads a chunk and stores the time in last_chunk
IdChunk ==
    /\ IdInTime
    /\ IdBecomes(connect_loop(id_pc, id_delay, id_tx, "chunk"))
    /\ id_last_chunk' = id_now
    /\ UNCHANGED << id_wake, id_cause >>

\* the sleep of electrum_last_chunk_loop has ended: the loop breaks with an
\* error, which ends the connection, or sleeps again
IdLastChunkLoop ==
    /\ id_pc = "connected"
    /\ id_now >= id_wake
    /\ IF IdleTooLong(id_now, id_last_chunk)
       THEN /\ IdBecomes(connect_loop(id_pc, id_delay, id_tx, "teardown"))
            /\ id_cause' = "last_chunk_f"
            /\ UNCHANGED << id_last_chunk, id_wake >>
       ELSE /\ id_wake' = id_now + ELECTRUM_TIMEOUT
            /\ UNCHANGED << id_pc, id_delay, id_tx, id_now, id_last_chunk, id_cause >>
            /\ IdFrame

\* recv_f or send_f ends
IdStreamEnds(f) ==
    /\ IdBecomes(connect_loop(id_pc, id_delay, id_tx, "teardown"))
    /\ id_cause' = f
    /\ UNCHANGED << id_last_chunk, id_wake >>

IdNext ==
    \/ IdTick
    \/ IdAttempt
    \/ IdConnectFails
    \/ IdConnected
    \/ IdChunk
    \/ IdLastChunkLoop
    \/ \E f \in {"recv_f", "send_f"} : IdStreamEnds(f)

\* timers fire and the task is polled when one of its futures is ready
SpecIdle ==
    /\ IdInit
    /\ [][IdNext]_vars
    /\ WF_vars(IdTick)
    /\ WF_vars(IdAttempt)
    /\ WF_vars(IdLastChunkLoop)

\* the connection has had no chunk for longer than the idle timeout
IdSilent ==
    /\ id_pc = "connected"
    /\ id_now - id_last_chunk > ELECTRUM_TIMEOUT

\* C30: a connection that has had no chunk for longer than the idle timeout is
\* torn down, the sender slot is emptied and a new attempt begins, unless a
\* chunk comes first; and the idle timeout never ends a connection within the
\* timeout after a chunk.
C30_IdleTimeoutReconnects ==
    /\ IdSilent ~> ((id_pc = "connecting" /\ ~id_tx) \/ (id_pc = "connected" /\ ~IdSilent))
    /\ [][(id_pc = "connected" /\ id_pc' # "connected" /\ id_cause' = "last_chunk_f")
            => (id_now - id_last_chunk > ELECTRUM_TIMEOUT /\ ~id_tx')]_vars

\* a chunk came, the connection then fell silent and was ended by the idle
\* timeout, and the next attempt is under way
C30_Witness ==
    /\ id_pc = "connecting"
    /\ ~id_tx
    /\ id_cause = "last_chunk_f"
    /\ id_last_chunk > 0
    /\ id_now - id_last_chunk > ELECTRUM_TIMEOUT

\* ---------------------------------------------------------------------------
\* SpecReconnect: connect_loop against a server that comes and goes
\* (rpc_clients.rs 1213-1290, 1318-1319)
\* ---------------------------------------------------------------------------

\* ended connections are counted up to this number
MaxEnded == 2

RcInit ==
    /\ rc_pc = "sleeping"
    /\ rc_delay = 0
    /\ rc_tx = FALSE
    /\ rc_reachable \in BOOLEAN
    /\ rc_dropped = FALSE
    /\ rc_ended = 0
    /\ GenIdle
    /\ SwapIdle
    /\ FundIdle
    /\ ElIdle
    /\ ExIdle
    /\ RawIdle
    /\ RqIdle
    /\ SvIdle
    /\ CfIdle
    /\ PrIdle
    /\ SpIdle
    /\ LsIdle
    /\ IdIdle
    /\ NxIdle
    /\ CkIdle

\* a poll of the task in which connect_loop has something to do; an attempt
\* succeeds when the server accepts connections and fails when it does not
RcLoop(event) ==
    /\ rc_pc # "terminated"
    /\ event \in LoopEvents
    /\ event = "connected" => rc_reachable
    /\ event = "connect_fails" => ~rc_reachable
    /\ LET step == connect_loop(rc_pc, rc_delay, rc_tx, event)
       IN  /\ step.ok
           /\ rc_pc' = IF ShutdownSeen(rc_dropped) THEN "terminated" ELSE step.pc
           /\ rc_delay' = step.delay
           /\ rc_tx' = step.tx
    /\ rc_ended' = IF event = "teardown" /\ rc_ended < MaxEnded
                   THEN rc_ended + 1 ELSE rc_ended
    /\ UNCHANGED << rc_reachable, rc_dropped >>
    /\ RcFrame

RcShutdown ==
    /\ rc_pc # "terminated"
    /\ ShutdownSeen(rc_dropped)
    /\ rc_pc' = "terminated"
    /\ UNCHANGED << rc_delay, rc_tx, rc_reachable, rc_dropped, rc_ended >>
    /\ RcFrame

RcDrop ==
    /\ ~rc_dropped
    /\ rc_dropped' = TRUE
    /\ UNCHANGED << rc_pc, rc_delay, rc_tx, rc_reachable, rc_ended >>
    /\ RcFrame

\* the server starts or stops accepting connections
RcServer ==
    /\ rc_reachable' = ~rc_reachable
    /\ UNCHANGED << rc_pc, rc_delay, rc_tx, rc_dropped, rc_ended >>
    /\ RcFrame

RcNext ==
    \/ \E event \in LoopEvents : RcLoop(event)
    \/ RcShutdown
    \/ RcDrop
    \/ RcServer

\* the timer of the sleep fires, an attempt comes to its end, and the task is
\* polled when the shutdown signal is sent
SpecReconnect ==
    /\ RcInit
    /\ [][RcNext]_vars
    /\ WF_vars(RcLoop("sleep_ends"))
    /\ WF_vars(RcLoop("connected"))
    /\ WF_vars(RcLoop("connect_fails"))
    /\ WF_vars(RcShutdown)

NCallers == 3
MaxIds == 4

Callers == 1..NCallers

\* Mutex::lock gives the guard to one task at a time
MutexFree_always(holder) == TRUE
MutexFree(holder) == holder = 0

NxInit ==
    /\ nx_next = 0
    /\ nx_mutex = 0
    /\ nx_pc = [t \in Callers |-> "idle"]
    /\ nx_local = [t \in Callers |-> 0]
    /\ nx_ids = << >>
    /\ GenIdle
    /\ SwapIdle
    /\ FundIdle
    /\ ElIdle
    /\ ExIdle
    /\ RawIdle
    /\ RqIdle
    /\ SvIdle
    /\ CfIdle
    /\ PrIdle
    /\ SpIdle
    /\ LsIdle
    /\ IdIdle
    /\ RcIdle
    /\ CkIdle

NxStarted == Cardinality({ t \in Callers : nx_pc[t] # "idle" }) + Len(nx_ids)

\* a task calls next_id
NxCall(t) ==
    /\ nx_pc[t] = "idle"
    /\ NxStarted < MaxIds
    /\ nx_pc' = [nx_pc EXCEPT ![t] = "lock"]
    /\ UNCHANGED << nx_next, nx_mutex, nx_local, nx_ids >>
    /\ NxFrame

\* let mut next = unwrap!(self.next_id.lock())
NxLock(t) ==
    /\ nx_pc[t] = "lock"
    /\ MutexFree(nx_mutex)
    /\ nx_mutex' = t
    /\ nx_pc' = [nx_pc EXCEPT ![t] = "read"]
    /\ UNCHANGED << nx_next, nx_local, nx_ids >>
    /\ NxFrame

\* *next += 1: the counter is read ...
NxRead(t) ==
    /\ nx_pc[t] = "read"
    /\ nx_local' = [nx_local EXCEPT ![t] = nx_next]
    /\ nx_pc' = [nx_pc EXCEPT ![t] = "write"]
    /\ UNCHANGED << nx_next, nx_mutex, nx_ids >>
    /\ NxFrame

\* ... and written
NxWrite(t) ==
    /\ nx_pc[t] = "write"
    /\ nx_next' = nx_local[t] + 1
    /\ nx_pc' = [nx_pc EXCEPT ![t] = "return"]
    /\ UNCHANGED << nx_mutex, nx_local, nx_ids >>
    /\ NxFrame

\* next.to_string(): the id is the counter as the task sees it; the guard is
\* dropped at the end of the function
NxReturn(t) ==
    /\ nx_pc[t] = "return"
    /\ nx_ids' = Append(nx_ids, nx_next)
    /\ nx_mutex' = 0
    /\ nx_pc' = [nx_pc EXCEPT ![t] = "idle"]
    /\ UNCHANGED << nx_next, nx_local >>
    /\ NxFrame

NxNext ==
    \E t \in Callers :
        \/ NxCall(t)
        \/ NxLock(t)
        \/ NxRead(t)
        \/ NxWrite(t)
        \/ NxReturn(t)

SpecNextId == NxInit /\ [][NxNext]_vars

\* C32: the ids handed out by one client increase strictly in the order in
\* which they are handed out, so no two are equal, however the calls of the
\* tasks interleave.
C32_IdsStrictlyIncrease ==
    \A i, j \in 1..Len(nx_ids) : i < j => nx_ids[i] < nx_ids[j]

\* a second id is about to be handed out while two other tasks wait for the
\* mutex
C32_Witness ==
    /\ Len(nx_ids) = 1
    /\ \E t, u, w \in Callers :
          /\ nx_pc[t] = "return"
          /\ nx_pc[u] = "lock"
          /\ nx_pc[w] = "lock"
          /\ u # w

\* a response to the request id lies in the response map of the connection s
RqStored(s, id) == \E x \in rq_responses[s] : x.id = id

\* C33 as stated: every response stored in a response map is removed from it
\* in the end.  The only removal is the one made by the future that waits for
\* that id; a response that comes after that future has ended stays.
C33_Original ==
    \A s \in Servers, id \in 1..NRequests : RqStored(s, id) ~> ~RqStored(s, id)

\* ---------------------------------------------------------------------------
\* SpecChunk: the codec Bytes and electrum_process_chunk on the bytes read
\* from the socket (rpc_clients.rs 1075-1126, 1256-1264, 1340-1352)
\* ---------------------------------------------------------------------------

\* the most frames a server sends
MaxFrames == 3

BLOCKCHAIN_HEADERS_SUB_ID == "blockchain.headers.subscribe"

\* the frames of a server: responses to two requests, a header notification,
\* a notification of another method, and a line that is no JSON
Frames ==
    { [kind |-> "response", id |-> "1"],
      [kind |-> "response", id |-> "2"],
      [kind |-> "headers", id |-> BLOCKCHAIN_HEADERS_SUB_ID],
      [kind |-> "unknown_method", id |-> ""],
      [kind |-> "unparsable", id |-> ""] }

\* a frame is two bytes long and ends with a newline
NL == [nl |-> TRUE, frame |-> [kind |-> "none", id |-> ""], part |-> 0]
FrameByte(f, part) == [nl |-> FALSE, frame |-> f, part |-> part]

RECURSIVE OnTheWire(_)
OnTheWire(frames) ==
    IF frames = << >> THEN << >>
    ELSE << FrameByte(Head(frames), 1), FrameByte(Head(frames), 2), NL >>
           \o OnTheWire(Tail(frames))

\* chunk.split(|item| *item == '\n' as u8): the pieces between the newlines,
\* the last of them empty when the chunk ends with one
RECURSIVE SplitAtNewlines(_, _)
SplitAtNewlines(chunk, piece) ==
    IF chunk = << >> THEN << piece >>
    ELSE IF Head(chunk).nl
    THEN << piece >> \o SplitAtNewlines(Tail(chunk), << >>)
    ELSE SplitAtNewlines(Tail(chunk), Append(piece, Head(chunk)))

\* json::from_slice: only the two bytes of one frame, in order, are JSON
from_slice(piece) ==
    IF /\ Len(piece) = 2
       /\ piece[1].part = 1
       /\ piece[2].part = 2
       /\ piece[1].frame = piece[2].frame
       /\ piece[1].frame.kind # "unparsable"
    THEN Ok(piece[1].frame)
    ELSE Err("not json")

\* the loop of electrum_process_chunk from piece i on: an empty piece is
\* passed over, a response and a header notification are inserted under
\* their ids, and a piece that is no JSON or a notification of another
\* method ends the function
RECURSIVE ProcessPieces(_, _, _)
ProcessPieces(split, i, responses) ==
    IF i > Len(split) THEN responses
    ELSE IF Len(split[i]) = 0 THEN ProcessPieces(split, i + 1, responses)
    ELSE LET raw_json == from_slice(split[i])
         IN  IF ~raw_json.ok THEN responses
             ELSE IF raw_json.val.kind \in {"response", "headers"}
             THEN ProcessPieces(split, i + 1, responses \cup {raw_json.val.id})
             ELSE responses

electrum_process_chunk(chunk, responses) ==
    ProcessPieces(SplitAtNewlines(chunk, << >>), 1, responses)

\* Decoder for Bytes: the whole buffer once its last byte is a newline
DecodeReady(buf) == Len(buf) > 0 /\ buf[Len(buf)].nl

CkInit ==
    /\ ck_frames \in UNION { [1..n -> Frames] : n \in 1..MaxFrames }
    /\ ck_stream = OnTheWire(ck_frames)
    /\ ck_buf = << >>
    /\ ck_responses = {}
    /\ ck_dispatched = << >>
    /\ GenIdle
    /\ SwapIdle
    /\ FundIdle
    /\ ElIdle
    /\ ExIdle
    /\ RawIdle
    /\ RqIdle
    /\ SvIdle
    /\ CfIdle
    /\ PrIdle
    /\ SpIdle
    /\ LsIdle
    /\ IdIdle
    /\ RcIdle
    /\ NxIdle

\* one read of n bytes from the socket: the bytes are added to the buffer,
\* the codec is asked for an item, and recv_f hands the item to
\* electrum_process_chunk
CkRead(n) ==
    /\ n \in 1..Len(ck_stream)
    /\ ck_stream' = SubSeq(ck_stream, n + 1, Len(ck_stream))
    /\ LET buf == ck_buf \o SubSeq(ck_stream, 1, n)
       IN  IF DecodeReady(buf)
           THEN /\ ck_buf' = << >>
                /\ ck_dispatched' = Append(ck_dispatched, buf)
                /\ ck_responses' = electrum_process_chunk(buf, ck_responses)
           ELSE /\ ck_buf' = buf
                /\ UNCHANGED << ck_dispatched, ck_responses >>
    /\ UNCHANGED ck_frames
    /\ CkFrame

CkNext == \E n \in 1..(3 * MaxFrames) : CkRead(n)

SpecChunk == CkInit /\ [][CkNext]_vars

\* the frames whose newline has been handed over with a chunk
RECURSIVE Flatten(_)
Flatten(chunks) ==
    IF chunks = << >> THEN << >> ELSE Head(chunks) \o Flatten(Tail(chunks))

CkHandedOver == Len(Flatten(ck_dispatched)) \div 3

\* C34 as stated: every well-formed response of a chunk is stored under its
\* id, wherever it stands in the chunk and whatever the other frames are.
\* A line that is no JSON, or a notification of an unknown method, makes
\* electrum_process_chunk return, and the frames after it are not looked at.
C34_Original ==
    \A k \in 1..Len(ck_frames) :
        (k <= CkHandedOver /\ ck_frames[k].kind = "response")
            => ck_frames[k].id \in ck_responses

\* C35 as stated: the codec hands over only data that ends with a newline,
\* the bytes are handed over in the order received, none dropped and none
\* twice, and a response is stored once its newline is received and the
\* buffered data ends with a newline.  The first two hold; the response is
\* not stored when the data buffered before it in the same item has a line
\* that ends electrum_process_chunk.
C35_Original ==
    /\ \A c \in 1..Len(ck_dispatched) : DecodeReady(ck_dispatched[c])
    /\ Flatten(ck_dispatched) \o ck_buf \o ck_stream = OnTheWire(ck_frames)
    /\ \A k \in 1..Len(ck_frames) :
          ( /\ ck_frames[k].kind = "response"
            /\ Len(ck_stream) <= 3 * (Len(ck_frames) - k)
            /\ ck_buf = << >> )
          => ck_frames[k].id \in ck_responses

\* what holds of the codec alone
CkFramingKept ==
    /\ \A c \in 1..Len(ck_dispatched) : DecodeReady(ck_dispatched[c])
    /\ Flatten(ck_dispatched) \o ck_buf \o ck_stream = OnTheWire(ck_frames)

\* C36 as stated: in WaitForTxSpend an RPC error of get_block_count or
\* get_block is passed over, and the future fails only once max_retries such
\* errors have been counted.  The code returns the first error: try_ready!
\* ends poll, and retries is never written.
C36_Original ==
    [][(sp_phase = "WaitForTxSpend" /\ sp_phase' = "done" /\ sp_result' = Err(ERR_RPC))
        => sp_scan'.retries >= sp_scan'.max_retries]_vars

\* WaitForTxSpend is running or has ended
SpScanning ==
    /\ sp_kind = "wait_for_tx_spend"
    /\ sp_phase \in {"WaitForTxSpend", "done"}
    /\ sp_poller.state = "done"
    /\ sp_poller.result.ok
    /\ sp_scan # << >>

\* C37 as stated: WaitForTxSpend reads the blocks from its starting height
\* up, each once and in order, and when a block it has read holds a
\* transaction that spends the watched output it resolves with that
\* transaction, also when the node failed to return a transaction of the
\* block.  The code passes over a transaction it could not fetch and never
\* reads the block again.
C37_Original ==
    SpScanning =>
        /\ \A i \in 1..Len(sp_scan.scanned) : sp_scan.scanned[i] = i
        /\ \A i \in 1..Len(sp_scan.scanned) :
              (\E k \in 1..Len(sp_chain[i]) :
                   \E n \in 1..Len(sp_chain[i][k].inputs) :
                       sp_chain[i][k].inputs[n] = PrevOut(WatchedHash, 0))
              => /\ sp_result.ok
                 /\ \E n \in 1..Len(sp_result.val.transaction.inputs) :
                       sp_result.val.transaction.inputs[n] = PrevOut(WatchedHash, 0)

\* C38 as stated: the one output of a claim or refund is worth the spent
\* funding output less 1000 and never more than the spent output; no
\* transaction with a wrapped value is handed to send_raw_tx.  For a funding
\* output below 1000 a build without overflow checks wraps the subtraction
\* (a negative value stands for 2^64 + value) and goes on.
C38_Original ==
    Built(RefundActions \cup ClaimActions) =>
        /\ Len(BuiltTx.outputs) = 1
        /\ BuiltTx.outputs[1].value = sw_last.prev.transaction.outputs[1].value - 1000
        /\ BuiltTx.outputs[1].value >= 0
        /\ BuiltTx.outputs[1].value <= sw_last.prev.transaction.outputs[1].value

(***************************************************************************)
(* SpecRawInput: tx_from_raw_bytes on bytes that came from somewhere else  *)
(***************************************************************************)
\* the longest byte string handed to tx_from_raw_bytes
MaxInputLen == 9

RawInputs == UNION { [1..n -> ByteValues] : n \in 0..MaxInputLen }

RawInputInit ==
    /\ raw_e = CHOOSE e \in [transaction : RawTransactions, redeem_script : RawRedeemScripts] : TRUE
    /\ raw_bytes \in RawInputs
    /\ raw_pc = "received"
    /\ raw_result = Err("none")
    /\ GenIdle
    /\ SwapIdle
    /\ FundIdle
    /\ ElIdle
    /\ ExIdle
    /\ RqIdle
    /\ SvIdle
    /\ CfIdle
    /\ PrIdle
    /\ SpIdle
    /\ LsIdle
    /\ IdIdle
    /\ RcIdle
    /\ NxIdle
    /\ CkIdle

TxFromRawInput ==
    /\ raw_pc = "received"
    /\ raw_result' = tx_from_raw_bytes(raw_bytes)
    /\ raw_pc' = "parsed"
    /\ UNCHANGED << raw_e, raw_bytes >>
    /\ RawFrame

RawInputNext == TxFromRawInput

SpecRawInput == RawInputInit /\ [][RawInputNext]_vars

\* C39: tx_from_raw_bytes of any byte string returns a decoded transaction
\* with its redeem script or an error value; it never panics on a slice
\* that reaches past the end of the input.
C39_Original ==
    raw_pc = "parsed" => (raw_result.ok \/ raw_result.err # PANIC_SLICE)

\* the part that holds: an input shorter than 8 bytes is refused as a value
RawShortRefused ==
    (raw_pc = "parsed" /\ Len(raw_bytes) < 8) => raw_result = Err(ERR_TOO_SMALL)

\* C40: in send_transaction of the Electrum client a broadcast that failed
\* is returned as an error with no scripthash.listunspent poll made; after a
\* broadcast that succeeded, a poll that fails or still lists a spent
\* outpoint leaves the call pending and the next poll follows, whatever the
\* number of polls before it, and only a poll that succeeds and lists none of
\* the spent outpoints resolves the call.
C40_PollErrorsNeverFail ==
    /\ []((~el_broadcast.ok /\ el_pc # "start") =>
             /\ el_pc = "failed"
             /\ ~el_result.ok
             /\ el_polls = 0
             /\ el_last_poll = Err("none"))
    /\ [][el_polls' # el_polls =>
             /\ el_broadcast.ok
             /\ IF ~el_last_poll'.ok
                THEN el_pc' = "polling" /\ el_result' = el_result /\ ~el_result.ok
                ELSE IF StillListed(el_last_poll'.val, el_inputs)
                THEN el_pc' = "polling" /\ el_result' = el_result
                ELSE el_pc' = "resolved" /\ el_result' = el_broadcast]_vars
    /\ []((el_pc = "polling" /\ el_polls < MaxPolls) => ENABLED ElPoll)

\* the last of several polls failed and the call is still pending
C40_Witness ==
    /\ el_pc = "polling"
    /\ el_broadcast.ok
    /\ el_polls >= 2
    /\ ~el_last_poll.ok
    /\ ~el_result.ok

=============================================================================
